---- MODULE Spec2Model ----
(***************************************************************************)
(* Planner kernel of the Nightreign relic planner: the game-data resolver   *)
(* queries, the tier-weighted scorer, the vessel slot optimizer             *)
(* (pin pre-assignment, branch-and-bound, result builder, tier-family       *)
(* direction correction, requirements check, multi-vessel ranking), and     *)
(* the inventory parser of a user-data blob.                                *)
(***************************************************************************)
EXTENDS Integers, Sequences, FiniteSets, TLC

(***************************************************************************)
(* Constants of the program.                                                *)
(***************************************************************************)

\* constants.py: EMPTY_EFFECT = 0xFFFFFFFF.  TLC integers are 32-bit signed, so
\* the sentinel is represented by the largest representable value; the code only
\* ever compares it for equality.
EMPTY_EFFECT == 2147483647

\* Effect identifiers documented in the test-suite (AttachEffectParam rows).
HP_RESTORE_BASE == 7005600
HP_RESTORE_PLUS1 == 6005600
HP_RESTORE_PLUS2 == 6005601
IMBUE_MAGIC == 7120000
IMBUE_FIRE == 7120100
TAKING_ATTACKS == 7032200
PHYSICAL_ATK_1 == 7001400
GUARD_COUNTER_HP == 7150000

\* A parameter row whose attachTextId points at TAKING_ATTACKS (an alias id),
\* a row with its own text id but the same display text, and an identifier
\* that has no row in any table.
TAKING_ATTACKS_ALIAS == TAKING_ATTACKS + 1
TAKING_ATTACKS_TWIN == TAKING_ATTACKS + 2
UNKNOWN_EFFECT == TAKING_ATTACKS + 3

\* models.py: CURSE_EXCESS_PENALTY
CURSE_EXCESS_PENALTY == -200

\* optimizer.py: branch-and-bound is used when total <= 200 and num_free <= 6
BACKTRACK_MAX_CANDIDATES == 200
BACKTRACK_MAX_FREE == 6

NoTier == "None"

\* models.py: TIERS, in declaration order (the iteration order of build.tiers)
ALL_TIER_KEYS == <<"required", "preferred", "nice_to_have", "bonus", "avoid", "blacklist">>

TierKeySet == {ALL_TIER_KEYS[i] : i \in 1..Len(ALL_TIER_KEYS)}

TIER_WEIGHTS ==
  [t \in TierKeySet |->
     CASE t = "required" -> 100
       [] t = "preferred" -> 50
       [] t = "nice_to_have" -> 25
       [] t = "bonus" -> 10
       [] t = "avoid" -> -20
       [] OTHER -> 0]

SCORED_TIERS == {"required", "preferred", "nice_to_have", "bonus", "avoid"}

MAGNITUDE_TIERS == {"required", "preferred", "nice_to_have", "bonus"}

\* build_optimizer.py: TIER_BONUS = {3: 5, 2: 2, 1: 0, 0: 0}, read with .get(n, 0)
TIER_BONUS(n) == IF n = 3 THEN 5 ELSE IF n = 2 THEN 2 ELSE 0

(***************************************************************************)
(* Generic helpers.                                                         *)
(***************************************************************************)

Range(s) == {s[i] : i \in 1..Len(s)}

Least(S) == CHOOSE x \in S : \A y \in S : x <= y

RECURSIVE SumSeq(_)
SumSeq(s) == IF s = <<>> THEN 0 ELSE s[1] + SumSeq(Tail(s))

\* Python int(a / b) for the operands used here: truncation toward zero.
TruncDiv(a, b) == IF a >= 0 THEN a \div b ELSE -((-a) \div b)

(***************************************************************************)
(* Game-Data Resolver: the static tables and the queries on them.           *)
(***************************************************************************)

\* AttachEffectParam rows: compatibilityId, attachTextId, exclusivityId.
effect_params ==
  [id \in {HP_RESTORE_BASE, HP_RESTORE_PLUS1, HP_RESTORE_PLUS2, IMBUE_MAGIC,
           IMBUE_FIRE, TAKING_ATTACKS, PHYSICAL_ATK_1, TAKING_ATTACKS_ALIAS,
           TAKING_ATTACKS_TWIN, GUARD_COUNTER_HP} |->
     CASE id = HP_RESTORE_BASE ->
            [compatibilityId |-> HP_RESTORE_BASE, attachTextId |-> HP_RESTORE_BASE, exclusivityId |-> -1]
       [] id = HP_RESTORE_PLUS1 ->
            [compatibilityId |-> HP_RESTORE_BASE, attachTextId |-> HP_RESTORE_PLUS1, exclusivityId |-> -1]
       [] id = HP_RESTORE_PLUS2 ->
            [compatibilityId |-> HP_RESTORE_BASE, attachTextId |-> HP_RESTORE_PLUS2, exclusivityId |-> -1]
       [] id = IMBUE_MAGIC ->
            [compatibilityId |-> 200, attachTextId |-> IMBUE_MAGIC, exclusivityId |-> 100]
       [] id = IMBUE_FIRE ->
            [compatibilityId |-> 200, attachTextId |-> IMBUE_FIRE, exclusivityId |-> 100]
       [] id = TAKING_ATTACKS ->
            [compatibilityId |-> 100, attachTextId |-> TAKING_ATTACKS, exclusivityId |-> -1]
       [] id = PHYSICAL_ATK_1 ->
            [compatibilityId |-> 100, attachTextId |-> PHYSICAL_ATK_1, exclusivityId |-> -1]
       [] id = TAKING_ATTACKS_ALIAS ->
            [compatibilityId |-> 100, attachTextId |-> TAKING_ATTACKS, exclusivityId |-> -1]
       [] id = GUARD_COUNTER_HP ->
            [compatibilityId |-> 100, attachTextId |-> GUARD_COUNTER_HP, exclusivityId |-> -1]
       [] OTHER ->
            [compatibilityId |-> 100, attachTextId |-> TAKING_ATTACKS_TWIN, exclusivityId |-> -1]]

\* The display-name table (FMG rows by id).
effect_name ==
  [id \in {HP_RESTORE_BASE, HP_RESTORE_PLUS1, HP_RESTORE_PLUS2, IMBUE_MAGIC,
           IMBUE_FIRE, TAKING_ATTACKS, PHYSICAL_ATK_1, TAKING_ATTACKS_TWIN,
           GUARD_COUNTER_HP} |->
     CASE id = HP_RESTORE_BASE -> "HP Restoration"
       [] id = HP_RESTORE_PLUS1 -> "HP Restoration +1"
       [] id = HP_RESTORE_PLUS2 -> "HP Restoration +2"
       [] id = IMBUE_MAGIC -> "Starting armament deals magic damage"
       [] id = IMBUE_FIRE -> "Starting armament deals fire damage"
       [] id = PHYSICAL_ATK_1 -> "Physical Attack Up"
       [] id = GUARD_COUNTER_HP -> "Guard counter is given a boost based on current HP"
       [] OTHER -> "Taking attacks improves attack power"]

\* A display name: a table text, "Empty", or the fallback f"Effect {id}".
NameOf(text) == [text |-> text, n |-> 0]

get_effect_text_id(effect_id) ==
  IF effect_id \in {-1, 0, EMPTY_EFFECT} THEN -1
  ELSE IF effect_id \in DOMAIN effect_params THEN effect_params[effect_id].attachTextId
  ELSE -1

\* the lookup with "Empty" as the fallback
name_lookup_empty(effect_id, text_id) ==
  IF effect_id \in DOMAIN effect_name THEN NameOf(effect_name[effect_id])
  ELSE IF text_id # -1 /\ text_id \in DOMAIN effect_name THEN NameOf(effect_name[text_id])
  ELSE NameOf("Empty")

\* get_effect_name past the "Empty" test: the row of the identifier, else the
\* row of its attachTextId, else the fallback
name_lookup(effect_id, text_id) ==
  IF effect_id \in DOMAIN effect_name THEN NameOf(effect_name[effect_id])
  ELSE IF text_id # -1 /\ text_id \in DOMAIN effect_name THEN NameOf(effect_name[text_id])
  ELSE [text |-> "Effect ", n |-> effect_id]

get_effect_name(effect_id) ==
  IF effect_id \in {-1, 0, EMPTY_EFFECT} THEN NameOf("Empty")
  ELSE name_lookup(effect_id, get_effect_text_id(effect_id))

get_effect_conflict_id(effect_id) ==
  IF effect_id \in {-1, EMPTY_EFFECT} THEN -1
  ELSE IF effect_id \in DOMAIN effect_params THEN effect_params[effect_id].compatibilityId
  ELSE -1

get_effect_exclusivity_id(effect_id) ==
  IF effect_id \in DOMAIN effect_params THEN effect_params[effect_id].exclusivityId ELSE -1

\* The stacking cache as loaded from the stacking rules (by display name).
stacking_cache ==
  [id \in {HP_RESTORE_BASE, HP_RESTORE_PLUS1, HP_RESTORE_PLUS2, IMBUE_MAGIC,
           IMBUE_FIRE, TAKING_ATTACKS, PHYSICAL_ATK_1, TAKING_ATTACKS_TWIN,
           GUARD_COUNTER_HP} |->
     CASE id \in {HP_RESTORE_PLUS1, HP_RESTORE_PLUS2} -> "unique"
       [] id = PHYSICAL_ATK_1 -> "stack"
       [] OTHER -> "no_stack"]

\* self._stacking_cache.get(effect_id), "" standing for None
stacking_cache_get(effect_id) ==
  IF effect_id \in DOMAIN stacking_cache THEN stacking_cache[effect_id] ELSE ""

\* the lookups of get_effect_stacking_type: direct, then by text identifier, then the default
stacking_lookup(effect_id, text_id, direct) ==
  IF direct # "" THEN direct
  ELSE IF text_id # -1 /\ text_id # effect_id /\ stacking_cache_get(text_id) # ""
       THEN stacking_cache_get(text_id)
  ELSE "no_stack"

\* class-specific effects (compatibility 900) are unique rather than no_stack
stacking_promoted(result, compat) ==
  IF result = "no_stack" /\ compat = 900 THEN "unique" ELSE result

get_effect_stacking_type(effect_id) ==
  stacking_promoted(
    stacking_lookup(effect_id, get_effect_text_id(effect_id), stacking_cache_get(effect_id)),
    get_effect_conflict_id(effect_id))

NoFamily == ""

\* Families: effect id -> <<family base, rank, cardinality>>.
effect_id_to_family ==
  [id \in {HP_RESTORE_BASE, HP_RESTORE_PLUS1, HP_RESTORE_PLUS2} |->
     CASE id = HP_RESTORE_BASE -> <<"HP Restoration", 1, 3>>
       [] id = HP_RESTORE_PLUS1 -> <<"HP Restoration", 2, 3>>
       [] OTHER -> <<"HP Restoration", 3, 3>>]

\* The identifier under which _effect_id_to_family knows the effect: the
\* identifier itself, else its text identifier, else -1.
family_key(effect_id, text_id) ==
  IF effect_id \in DOMAIN effect_id_to_family THEN effect_id
  ELSE IF text_id # -1 /\ text_id # effect_id /\ text_id \in DOMAIN effect_id_to_family
       THEN text_id
  ELSE -1

family_of_key(key) == IF key = -1 THEN NoFamily ELSE effect_id_to_family[key][1]

get_effect_family(effect_id) == family_of_key(family_key(effect_id, get_effect_text_id(effect_id)))

magnitude_of_key(key, base_weight) ==
  IF key = -1 THEN base_weight
  ELSE TruncDiv(base_weight * effect_id_to_family[key][2], effect_id_to_family[key][3])

get_family_magnitude_weight(effect_id, base_weight) ==
  magnitude_of_key(family_key(effect_id, get_effect_text_id(effect_id)), base_weight)

get_family_effect_ids(family_name) ==
  {id \in DOMAIN effect_id_to_family : effect_id_to_family[id][1] = family_name}

(***************************************************************************)
(* Relics and builds.                                                       *)
(*   relic: [ga_handle, color, is_deep, effects, curses]                    *)
(*   build: [tiers, family_tiers, include_deep, curse_max, pinned_relics]   *)
(***************************************************************************)

NonEmpty(effs) == SelectSeq(effs, LAMBDA e : e \notin {EMPTY_EFFECT, 0})

effect_count(relic) == Len(NonEmpty(relic.effects))

all_effects(relic) == NonEmpty(relic.effects \o relic.curses)

\* BuildDefinition.get_tier_for_effect: first tier, in dictionary order, listing the id
get_tier_for_effect(b, effect_id) ==
  LET hits == SelectSeq(ALL_TIER_KEYS, LAMBDA t : effect_id \in b.tiers[t])
  IN IF hits = <<>> THEN NoTier ELSE hits[1]

get_tier_for_family(b, family_name) ==
  LET hits == SelectSeq(ALL_TIER_KEYS, LAMBDA t : family_name \in b.family_tiers[t])
  IN IF hits = <<>> THEN NoTier ELSE hits[1]

(***************************************************************************)
(* Scorer.                                                                  *)
(***************************************************************************)

\* The scorer's _name_cache is held as the tiers it was built from. A definition
\* that takes a cache is the method on a scorer with that cache; the definition
\* without it is the method on a scorer whose cache is that of build.tiers, as on a
\* new scorer.
\* cache.get(name): first tier whose list holds an id with that display name;
\* "Empty" and "Effect N" names are never cached.
name_cache_get(tiers, name) ==
  LET hits == SelectSeq(ALL_TIER_KEYS,
                 LAMBDA t : \E eid \in tiers[t] :
                    /\ get_effect_name(eid) = name
                    /\ name.text \notin {"", "Empty", "Effect "})
  IN IF hits = <<>> THEN NoTier ELSE hits[1]

\* the tier ladder of _resolve_tier_and_weight: direct, by text identifier, by name
tier_by_text(b, eff_id, text_id, direct) ==
  IF direct = NoTier /\ text_id # -1 /\ text_id # eff_id
  THEN get_tier_for_effect(b, text_id) ELSE direct

tier_by_name(cache, eff_id, tier) ==
  IF tier = NoTier THEN name_cache_get(cache, get_effect_name(eff_id)) ELSE tier

effect_tier(b, eff_id, cache) ==
  tier_by_name(cache, eff_id,
    tier_by_text(b, eff_id, get_effect_text_id(eff_id), get_tier_for_effect(b, eff_id)))

\* the family branch of _resolve_tier_and_weight
family_tier_and_weight(eff_id, ftier) ==
  IF ftier = NoTier THEN <<NoTier, 0>>
  ELSE IF ftier \in MAGNITUDE_TIERS
       THEN <<ftier, get_family_magnitude_weight(eff_id, TIER_WEIGHTS[ftier])>>
  ELSE <<ftier, TIER_WEIGHTS[ftier]>>

family_tier(b, family) == IF family = NoFamily THEN NoTier ELSE get_tier_for_family(b, family)

tier_and_weight(b, eff_id, tier) ==
  IF tier # NoTier THEN <<tier, TIER_WEIGHTS[tier]>>
  ELSE family_tier_and_weight(eff_id, family_tier(b, get_effect_family(eff_id)))

\* _resolve_tier_and_weight: <<tier, weight>>
resolve_by(eff_id, b, cache) == tier_and_weight(b, eff_id, effect_tier(b, eff_id, cache))

resolve_tier_and_weight(eff_id, b) == resolve_by(eff_id, b, b.tiers)

\* the display names of the blacklisted identifiers
blacklist_names_of(blacklist_ids) ==
  {get_effect_name(eid) : eid \in {e \in blacklist_ids : get_effect_name(e).text \notin {"", "Empty"}}}

\* the tests has_blacklisted_effect makes on one effect
effect_blacklisted(eff, text_id, name, family, blacklist_ids, blacklist_names, blacklist_families) ==
  IF eff \in blacklist_ids THEN TRUE
  ELSE IF text_id # -1 /\ text_id # eff /\ text_id \in blacklist_ids THEN TRUE
  ELSE IF name \in blacklist_names THEN TRUE
  ELSE family # NoFamily /\ family \in blacklist_families

any_blacklisted(effs, blacklist_ids, blacklist_names, blacklist_families) ==
  \E i \in 1..Len(effs) :
     effect_blacklisted(effs[i], get_effect_text_id(effs[i]), get_effect_name(effs[i]),
                        get_effect_family(effs[i]), blacklist_ids, blacklist_names,
                        blacklist_families)

has_blacklisted_effect(relic, b) ==
  IF b.tiers["blacklist"] = {} /\ b.family_tiers["blacklist"] = {} THEN FALSE
  ELSE any_blacklisted(all_effects(relic), b.tiers["blacklist"],
                       blacklist_names_of(b.tiers["blacklist"]), b.family_tiers["blacklist"])

\* the weight an effect adds when its tier is scored
scored_weight(tw) == IF tw[1] \in SCORED_TIERS THEN tw[2] ELSE 0

\* Sum of the tier weights of the scored, non-empty entries of one effect list.
RECURSIVE pre_score_by(_, _, _)
pre_score_by(effs, b, cache) ==
  IF effs = <<>> THEN 0
  ELSE (IF effs[1] \in {EMPTY_EFFECT, 0} THEN 0
        ELSE scored_weight(resolve_by(effs[1], b, cache)))
       + pre_score_by(Tail(effs), b, cache)

pre_score_list(effs, b) == pre_score_by(effs, b, b.tiers)

score_relic_by(relic, b, cache) ==
  pre_score_by(relic.effects, b, cache) + pre_score_by(relic.curses, b, cache)
    + TIER_BONUS(effect_count(relic))

score_relic(relic, b) == score_relic_by(relic, b, b.tiers)

\* A vessel state as the scorer reads it: the four stacking sets.
\*   [eff, excl, no_stack_excl, no_stack_compat]
VesselSets(v_eff_, v_excl_, v_ns_excl_, v_ns_compat_) ==
  [eff |-> v_eff_, excl |-> v_excl_, no_stack_excl |-> v_ns_excl_, no_stack_compat |-> v_ns_compat_]

\* The no_stack branch: vessel_compat_ids is the second set the optimizer passes,
\* its exclusivity set.
no_stack_score(eff_id, weight, compat, text_id, vs) ==
  IF compat # -1 /\ compat \in vs.excl THEN 0
  ELSE IF text_id # -1 /\ text_id \in vs.eff THEN 0
  ELSE IF compat = -1 /\ eff_id \in vs.eff THEN 0
  ELSE weight

unique_score(eff_id, weight, compat, text_id, vs) ==
  IF eff_id \in vs.eff THEN 0
  ELSE IF text_id # -1 /\ text_id \in vs.eff THEN 0
  ELSE IF compat # -1 /\ compat \in vs.no_stack_compat THEN 0
  ELSE weight

stacking_score(eff_id, weight, stype, compat, text_id, vs) ==
  IF stype = "stack" THEN weight
  ELSE IF stype = "unique" THEN unique_score(eff_id, weight, compat, text_id, vs)
  ELSE no_stack_score(eff_id, weight, compat, text_id, vs)

\* _effect_stacking_score
effect_stacking_score(eff_id, weight, vs) ==
  stacking_score(eff_id, weight, get_effect_stacking_type(eff_id),
                 get_effect_conflict_id(eff_id), get_effect_text_id(eff_id), vs)

\* dict.get(curse, 0) on the curse-count dictionary
CurseCount(counts, curse) == IF curse \in DOMAIN counts THEN counts[curse] ELSE 0

ctx_weight(eff, tw, vs) ==
  IF tw[1] \in SCORED_TIERS THEN effect_stacking_score(eff, tw[2], vs) ELSE 0

RECURSIVE ctx_score_by(_, _, _, _)
ctx_score_by(effs, b, vs, cache) ==
  IF effs = <<>> THEN 0
  ELSE (IF effs[1] \in {EMPTY_EFFECT, 0} THEN 0
        ELSE ctx_weight(effs[1], resolve_by(effs[1], b, cache), vs))
       + ctx_score_by(Tail(effs), b, vs, cache)

ctx_score_list(effs, b, vs) == ctx_score_by(effs, b, vs, b.tiers)

RECURSIVE curse_penalty(_, _, _)
curse_penalty(curses, b, counts) ==
  IF curses = <<>> THEN 0
  ELSE (IF curses[1] \notin {EMPTY_EFFECT, 0} /\ CurseCount(counts, curses[1]) >= b.curse_max
        THEN CURSE_EXCESS_PENALTY ELSE 0)
       + curse_penalty(Tail(curses), b, counts)

\* score_relic_in_context(relic, build, v_eff, v_excl, v_no_stack_excl, curse_counts, v_no_stack_compat)
score_relic_in_context_by(relic, b, vs, vessel_curse_counts, cache) ==
  ctx_score_by(relic.effects \o relic.curses, b, vs, cache)
    + curse_penalty(relic.curses, b, vessel_curse_counts)
    + TIER_BONUS(effect_count(relic))

score_relic_in_context(relic, b, vs, vessel_curse_counts) ==
  score_relic_in_context_by(relic, b, vs, vessel_curse_counts, b.tiers)

NoStatus == "None"

classify_override(eff_id, text_id, vessel_effect_ids) ==
  IF eff_id \in vessel_effect_ids THEN "duplicate"
  ELSE IF text_id # -1 /\ text_id \in vessel_effect_ids THEN "duplicate"
  ELSE "overridden"

\* override_status of an entry: set when a scored effect with a non-zero base
\* score scores 0 in context
override_status_of(eff, tw, base_score, vs) ==
  IF tw[1] \notin SCORED_TIERS THEN NoStatus
  ELSE IF effect_stacking_score(eff, tw[2], vs) = 0 /\ base_score # 0
       THEN classify_override(eff, get_effect_text_id(eff), vs.eff)
  ELSE NoStatus

entry_record(eff, is_curse, tier, base_score, override_status) ==
  [effect_id |-> eff, name |-> get_effect_name(eff), tier |-> tier,
   score |-> IF override_status # NoStatus THEN 0 ELSE base_score,
   is_curse |-> is_curse, redundant |-> override_status # NoStatus,
   override_status |-> override_status]

base_score_of(tw) == IF tw[1] # NoTier THEN tw[2] ELSE 0

entry_of(eff, is_curse, tw, vs) ==
  entry_record(eff, is_curse, tw[1], base_score_of(tw), override_status_of(eff, tw, base_score_of(tw), vs))

\* One entry of get_breakdown.
breakdown_entry(eff, is_curse, b, vs) == entry_of(eff, is_curse, resolve_tier_and_weight(eff, b), vs)

RECURSIVE breakdown_list(_, _, _, _)
breakdown_list(effs, is_curse, b, vs) ==
  IF effs = <<>> THEN <<>>
  ELSE (IF effs[1] \in {EMPTY_EFFECT, 0} THEN <<>>
        ELSE <<breakdown_entry(effs[1], is_curse, b, vs)>>)
       \o breakdown_list(Tail(effs), is_curse, b, vs)

\* get_breakdown(relic, build, v_eff, v_excl, v_no_stack_excl, v_no_stack_compat)
get_breakdown(relic, b, vs) ==
  breakdown_list(relic.effects, FALSE, b, vs) \o breakdown_list(relic.curses, TRUE, b, vs)

(***************************************************************************)
(* Optimizer: pure parts.  Slots are numbered from 1 here, so slot i is a   *)
(* deep slot exactly when i > 3 (the code's 0-based i >= 3).                *)
(***************************************************************************)

\* The value standing for Python's None in a slot of an assignment.
NoRelic == [ga_handle |-> 0, color |-> "None", is_deep |-> FALSE, effects |-> <<>>, curses |-> <<>>]

NoHandle == NoRelic.ga_handle

is_deep_slot(i) == i > 3

num_slots_of(b) == IF b.include_deep THEN 6 ELSE 3

\* get_candidates without the colour test
get_candidates_any_color(inv, slot_color, deep) == SelectSeq(inv, LAMBDA r : r.is_deep = deep)

\* RelicInventory.get_candidates: the relics of inventory.relics that fit, in order
get_candidates(inv, slot_color, deep) ==
  SelectSeq(inv, LAMBDA r : r.is_deep = deep /\ (slot_color = "White" \/ r.color = slot_color))

\* pinned_map: handle -> relic, for the inventory relics whose handle is pinned
\* (a dict comprehension: the last relic with a given handle wins)
pinned_map_of(b, inv) ==
  LET hs == {inv[k].ga_handle : k \in 1..Len(inv)} \cap Range(b.pinned_relics)
  IN [h \in hs |-> inv[CHOOSE k \in 1..Len(inv) :
                         /\ inv[k].ga_handle = h
                         /\ \A m \in (k+1)..Len(inv) : inv[m].ga_handle # h]]

\* The slots not yet owned that fit the relic; the loop takes the first.
fitting_slots(relic, owner, slot_colors_, num_slots_) ==
  {i \in 1..num_slots_ :
     /\ owner[i] = NoHandle
     /\ relic.is_deep = is_deep_slot(i)
     /\ (slot_colors_[i] = "White" \/ relic.color = slot_colors_[i])}

\* The loop without `return None, []`: a pinned relic that fits no slot is passed over
RECURSIVE pin_loop_skipping(_, _, _, _, _)
pin_loop_skipping(pins, pmap, owner, slot_colors_, num_slots_) ==
  IF pins = <<>> THEN [ok |-> TRUE, slot_owner |-> owner]
  ELSE IF pins[1] \notin DOMAIN pmap
          \/ fitting_slots(pmap[pins[1]], owner, slot_colors_, num_slots_) = {}
       THEN pin_loop_skipping(Tail(pins), pmap, owner, slot_colors_, num_slots_)
  ELSE pin_loop_skipping(Tail(pins), pmap,
                [owner EXCEPT ![Least(fitting_slots(pmap[pins[1]], owner, slot_colors_, num_slots_))] = pins[1]],
                slot_colors_, num_slots_)

\* The loop without `continue`: a pinned handle with no relic excludes the vessel
RECURSIVE pin_loop_strict(_, _, _, _, _)
pin_loop_strict(pins, pmap, owner, slot_colors_, num_slots_) ==
  IF pins = <<>> THEN [ok |-> TRUE, slot_owner |-> owner]
  ELSE IF pins[1] \notin DOMAIN pmap
          \/ fitting_slots(pmap[pins[1]], owner, slot_colors_, num_slots_) = {}
       THEN [ok |-> FALSE, slot_owner |-> <<>>]
  ELSE pin_loop_strict(Tail(pins), pmap,
                [owner EXCEPT ![Least(fitting_slots(pmap[pins[1]], owner, slot_colors_, num_slots_))] = pins[1]],
                slot_colors_, num_slots_)

\* The loop of _pre_assign_pinned over build.pinned_relics, in list order.
RECURSIVE pin_loop(_, _, _, _, _)
pin_loop(pins, pmap, owner, slot_colors_, num_slots_) ==
  IF pins = <<>> THEN [ok |-> TRUE, slot_owner |-> owner]
  ELSE IF pins[1] \notin DOMAIN pmap
       THEN pin_loop(Tail(pins), pmap, owner, slot_colors_, num_slots_)
  ELSE IF fitting_slots(pmap[pins[1]], owner, slot_colors_, num_slots_) = {}
       THEN [ok |-> FALSE, slot_owner |-> <<>>]
  ELSE pin_loop(Tail(pins), pmap,
                [owner EXCEPT ![Least(fitting_slots(pmap[pins[1]], owner, slot_colors_, num_slots_))] = pins[1]],
                slot_colors_, num_slots_)

pin_result(pmap, res) == [ok |-> res.ok, pinned_map |-> pmap, slot_owner |-> res.slot_owner]

pin_all(pins, pmap, slot_colors_, num_slots_) ==
  pin_result(pmap, pin_loop(pins, pmap, [i \in 1..num_slots_ |-> NoHandle], slot_colors_, num_slots_))

\* _pre_assign_pinned: [ok, pinned_map, slot_owner]; ok = FALSE is (None, [])
pre_assign_pinned(b, inv, slot_colors_, num_slots_) ==
  IF b.pinned_relics = <<>>
  THEN [ok |-> TRUE, pinned_map |-> <<>>, slot_owner |-> [i \in 1..num_slots_ |-> NoHandle]]
  ELSE pin_all(b.pinned_relics, pinned_map_of(b, inv), slot_colors_, num_slots_)

\* sorted(..., key=score, reverse=True): stable, so equal scores keep their order
pair_inserted(rest, x) ==
  SelectSeq(rest, LAMBDA p : p[1] >= x[1]) \o <<x>> \o SelectSeq(rest, LAMBDA p : p[1] < x[1])

RECURSIVE sorted_desc(_)
sorted_desc(pairs) ==
  IF pairs = <<>> THEN <<>>
  ELSE pair_inserted(sorted_desc(SubSeq(pairs, 1, Len(pairs) - 1)), pairs[Len(pairs)])

scored(cands, b) == [k \in 1..Len(cands) |-> <<score_relic(cands[k], b), cands[k]>>]

\* The candidate list of one free slot: <<pre_score, relic>> pairs, best first
slot_candidates(b, inv, slot_color, deep, pinned_handles) ==
  sorted_desc(scored(
    SelectSeq(get_candidates(inv, slot_color, deep),
       LAMBDA r : ~has_blacklisted_effect(r, b) /\ r.ga_handle \notin pinned_handles), b))

free_slot_indices_of(slot_owner) ==
  SelectSeq([i \in 1..Len(slot_owner) |-> i], LAMBDA i : slot_owner[i] = NoHandle)

\* Rule 1: a no_stack base (self-referencing compatibility) is placed
rule1(eff, compat, stype) == stype = "no_stack" /\ compat # -1 /\ compat = eff

\* Rule 2: a variant pointing to a real no_stack tier-family base is placed
rule2(eff, compat, stype) ==
  /\ ~rule1(eff, compat, stype)
  /\ compat # -1 /\ compat # eff
  /\ get_effect_conflict_id(compat) = compat
  /\ get_effect_stacking_type(compat) = "no_stack"

\* the additions with Rule 2 also writing the base to no_stack_compat_ids
effect_adds_rule2_compat(eff, text_id, compat, stype, excl) ==
  [effect_ids |-> {eff} \cup (IF text_id # -1 /\ text_id # eff THEN {text_id} ELSE {})
                       \cup (IF rule2(eff, compat, stype) THEN {compat} ELSE {}),
   exclusivity_ids |-> IF excl # -1 THEN {excl} ELSE {},
   no_stack_exclusivity_ids |-> IF excl # -1 /\ stype = "no_stack" THEN {excl} ELSE {},
   no_stack_compat_ids |->
     IF rule1(eff, compat, stype) \/ rule2(eff, compat, stype) THEN {compat} ELSE {}]

\* the additions with the compatibility identifier of a no_stack effect written to
\* exclusivity_ids
effect_adds_compat_group(eff, text_id, compat, stype, excl) ==
  [effect_ids |-> {eff} \cup (IF text_id # -1 /\ text_id # eff THEN {text_id} ELSE {})
                       \cup (IF rule2(eff, compat, stype) THEN {compat} ELSE {}),
   exclusivity_ids |-> (IF excl # -1 THEN {excl} ELSE {})
                          \cup (IF compat # -1 /\ stype = "no_stack" THEN {compat} ELSE {}),
   no_stack_exclusivity_ids |-> IF excl # -1 /\ stype = "no_stack" THEN {excl} ELSE {},
   no_stack_compat_ids |-> IF rule1(eff, compat, stype) THEN {compat} ELSE {}]

\* the additions of one effect
effect_adds(eff, text_id, compat, stype, excl) ==
  [effect_ids |-> {eff} \cup (IF text_id # -1 /\ text_id # eff THEN {text_id} ELSE {})
                       \cup (IF rule2(eff, compat, stype) THEN {compat} ELSE {}),
   exclusivity_ids |-> IF excl # -1 THEN {excl} ELSE {},
   no_stack_exclusivity_ids |-> IF excl # -1 /\ stype = "no_stack" THEN {excl} ELSE {},
   no_stack_compat_ids |-> IF rule1(eff, compat, stype) THEN {compat} ELSE {}]

eff_adds(eff) ==
  effect_adds(eff, get_effect_text_id(eff), get_effect_conflict_id(eff),
              get_effect_stacking_type(eff), get_effect_exclusivity_id(eff))

union_adds(adds) ==
  [effect_ids |-> UNION {adds[k].effect_ids : k \in 1..Len(adds)},
   exclusivity_ids |-> UNION {adds[k].exclusivity_ids : k \in 1..Len(adds)},
   no_stack_exclusivity_ids |-> UNION {adds[k].no_stack_exclusivity_ids : k \in 1..Len(adds)},
   no_stack_compat_ids |-> UNION {adds[k].no_stack_compat_ids : k \in 1..Len(adds)}]

each_adds(effs) == [k \in 1..Len(effs) |-> eff_adds(effs[k])]

\* _get_relic_stacking_adds: the four sets of additions of one relic
get_relic_stacking_adds(relic) == union_adds(each_adds(all_effects(relic)))

get_relic_curse_ids(relic) == NonEmpty(relic.curses)

\* for cid in added_curses: curse_counts[cid] = curse_counts.get(cid, 0) + 1
RECURSIVE add_curses(_, _)
add_curses(counts, cids) ==
  IF cids = <<>> THEN counts
  ELSE add_curses([c \in DOMAIN counts \cup {cids[1]} |->
                     IF c = cids[1] THEN CurseCount(counts, c) + 1 ELSE counts[c]],
                  Tail(cids))

\* for cid in added_curses: curse_counts[cid] -= 1; delete the key at 0
RECURSIVE remove_curses(_, _)
remove_curses(counts, cids) ==
  IF cids = <<>> THEN counts
  ELSE LET c1 == cids[1]
           dec == [c \in DOMAIN counts |-> IF c = c1 THEN counts[c] - 1 ELSE counts[c]]
           kept == {c \in DOMAIN dec : ~(c = c1 /\ dec[c] = 0)}
       IN remove_curses([c \in kept |-> dec[c]], Tail(cids))

(***************************************************************************)
(* _build_vessel_result: the left-to-right slot loop.                       *)
(* A loop state is [slot_results, assigned_effect_ids, vessel_eff,          *)
(* vessel_excl, vessel_no_stack_excl, vessel_no_stack_compat,               *)
(* vessel_curse_counts, total_score].                                       *)
(***************************************************************************)

EmptyLoopState ==
  [slot_results |-> <<>>, assigned_effect_ids |-> {}, vessel_eff |-> {}, vessel_excl |-> {},
   vessel_no_stack_excl |-> {}, vessel_no_stack_compat |-> {}, vessel_curse_counts |-> <<>>,
   total_score |-> 0]

\* relic.all_effects together with every text identifier that is not -1
relic_assigned_ids(relic) ==
  LET effs == all_effects(relic)
  IN Range(effs) \cup ({get_effect_text_id(effs[k]) : k \in 1..Len(effs)} \ {-1})

\* the stacking sets of a loop state, as the scorer reads them
loop_sets(st) ==
  VesselSets(st.vessel_eff, st.vessel_excl, st.vessel_no_stack_excl, st.vessel_no_stack_compat)

\* the loop state after a relic was scored in a slot
slot_scored(st, relic, score, breakdown, adds) ==
  [slot_results |-> Append(st.slot_results,
                           [relic |-> relic, score |-> score, breakdown |-> breakdown]),
   assigned_effect_ids |-> st.assigned_effect_ids \cup relic_assigned_ids(relic),
   vessel_eff |-> st.vessel_eff \cup adds.effect_ids,
   vessel_excl |-> st.vessel_excl \cup adds.exclusivity_ids,
   vessel_no_stack_excl |-> st.vessel_no_stack_excl \cup adds.no_stack_exclusivity_ids,
   vessel_no_stack_compat |-> st.vessel_no_stack_compat \cup adds.no_stack_compat_ids,
   vessel_curse_counts |-> add_curses(st.vessel_curse_counts, get_relic_curse_ids(relic)),
   total_score |-> st.total_score + score]

\* one iteration of the slot loop
score_slot(st, relic, b) ==
  IF relic = NoRelic
  THEN [st EXCEPT !.slot_results = Append(@, [relic |-> NoRelic, score |-> 0, breakdown |-> <<>>])]
  ELSE slot_scored(st, relic,
                   score_relic_in_context(relic, b, loop_sets(st), st.vessel_curse_counts),
                   get_breakdown(relic, b, loop_sets(st)),
                   get_relic_stacking_adds(relic))

RECURSIVE score_slots(_, _, _)
score_slots(st, relics, b) ==
  IF relics = <<>> THEN st
  ELSE score_slots(score_slot(st, relics[1], b), Tail(relics), b)

(***************************************************************************)
(* _fix_tier_family_direction.                                              *)
(***************************************************************************)

\* The members a breakdown contributes to family_map: (slot_i, bk_j, eff_id, stype),
\* with the group key compat.
is_member(tier, compat, stype) ==
  /\ tier \in SCORED_TIERS
  /\ compat # -1
  /\ get_effect_conflict_id(compat) = compat
  /\ stype \in {"no_stack", "unique"}

member_of(slot_i, bk_j, eff_id) ==
  [slot_i |-> slot_i, bk_j |-> bk_j, eff_id |-> eff_id,
   stype |-> get_effect_stacking_type(eff_id), compat |-> get_effect_conflict_id(eff_id)]

members_at(slot_i, breakdown, idx) ==
  [k \in 1..Len(idx) |-> member_of(slot_i, idx[k], breakdown[idx[k]].effect_id)]

entry_members(slot_i, breakdown) ==
  members_at(slot_i, breakdown,
    SelectSeq([j \in 1..Len(breakdown) |-> j],
       LAMBDA j : is_member(breakdown[j].tier, get_effect_conflict_id(breakdown[j].effect_id),
                            get_effect_stacking_type(breakdown[j].effect_id))))

RECURSIVE family_members(_, _)
family_members(slot_results, i) ==
  IF i > Len(slot_results) THEN <<>>
  ELSE (IF slot_results[i].relic = NoRelic THEN <<>>
        ELSE entry_members(i, slot_results[i].breakdown))
       \o family_members(slot_results, i + 1)

\* the entry of a member
member_entry(fx, m) == fx.slot_results[m.slot_i].breakdown[m.bk_j]

\* Step 1 without `total_score -= old`
base_zeroed_total_kept(fx, m, old) ==
  [slot_results |->
     [fx.slot_results EXCEPT
        ![m.slot_i].breakdown[m.bk_j].score = 0,
        ![m.slot_i].breakdown[m.bk_j].redundant = TRUE,
        ![m.slot_i].breakdown[m.bk_j].override_status = "overridden",
        ![m.slot_i].score = @ - old],
   total_score |-> fx.total_score]

\* Step 1 without `entry["score"] = 0`
base_flagged_only(fx, m, old) ==
  [slot_results |->
     [fx.slot_results EXCEPT
        ![m.slot_i].breakdown[m.bk_j].redundant = TRUE,
        ![m.slot_i].breakdown[m.bk_j].override_status = "overridden"],
   total_score |-> fx.total_score]

\* Step 1 on one base: score 0, redundant, the slot and the total lose old
base_zeroed(fx, m, old) ==
  [slot_results |->
     [fx.slot_results EXCEPT
        ![m.slot_i].breakdown[m.bk_j].score = 0,
        ![m.slot_i].breakdown[m.bk_j].redundant = TRUE,
        ![m.slot_i].breakdown[m.bk_j].override_status = "overridden",
        ![m.slot_i].score = @ - old],
   total_score |-> fx.total_score - old]

\* Step 1: every no_stack member with a positive score loses it.
RECURSIVE fix_step1(_, _)
fix_step1(fx, members) ==
  IF members = <<>> THEN fx
  ELSE IF members[1].stype = "no_stack" /\ member_entry(fx, members[1]).score > 0
       THEN fix_step1(base_zeroed(fx, members[1], member_entry(fx, members[1]).score),
                      Tail(members))
  ELSE fix_step1(fx, Tail(members))

\* Step 2 on one variant: its weight is restored, the slot and the total gain it
variant_restored(fx, m, weight) ==
  IF ~member_entry(fx, m).redundant \/ weight <= 0 THEN fx
  ELSE [slot_results |->
          [fx.slot_results EXCEPT
             ![m.slot_i].breakdown[m.bk_j].score = weight,
             ![m.slot_i].breakdown[m.bk_j].redundant = FALSE,
             ![m.slot_i].breakdown[m.bk_j].override_status = NoStatus,
             ![m.slot_i].score = @ + weight],
        total_score |-> fx.total_score + weight]

\* Step 2: in slot order, the first occurrence of each unique variant gets its
\* weight back when it had been marked redundant.
RECURSIVE fix_step2(_, _, _, _)
fix_step2(fx, members, placed_variant_effs, b) ==
  IF members = <<>> THEN fx
  ELSE IF members[1].stype # "unique" \/ members[1].eff_id \in placed_variant_effs
       THEN fix_step2(fx, Tail(members), placed_variant_effs, b)
  ELSE fix_step2(variant_restored(fx, members[1], resolve_tier_and_weight(members[1].eff_id, b)[2]),
                 Tail(members), placed_variant_effs \cup {members[1].eff_id}, b)

\* The groups of family_map in insertion order (first appearance of the key).
RECURSIVE group_keys(_, _)
group_keys(members, seen_keys) ==
  IF members = <<>> THEN <<>>
  ELSE IF members[1].compat \in seen_keys THEN group_keys(Tail(members), seen_keys)
  ELSE <<members[1].compat>> \o group_keys(Tail(members), seen_keys \cup {members[1].compat})

has_stype(members, stype) == \E k \in 1..Len(members) : members[k].stype = stype

\* one group of family_map: both steps when it holds a base and a variant
fix_group(fx, members, b) ==
  IF has_stype(members, "no_stack") /\ has_stype(members, "unique")
  THEN fix_step2(fix_step1(fx, members), members, {}, b)
  ELSE fx

RECURSIVE fix_groups(_, _, _, _)
fix_groups(fx, keys, all_members, b) ==
  IF keys = <<>> THEN fx
  ELSE fix_groups(fix_group(fx, SelectSeq(all_members, LAMBDA m : m.compat = keys[1]), b),
                  Tail(keys), all_members, b)

fix_members(fx, all_members, b) == fix_groups(fx, group_keys(all_members, {}), all_members, b)

\* Result: [slot_results, total_score]
fix_tier_family_direction(slot_results, b, total_score) ==
  fix_members([slot_results |-> slot_results, total_score |-> total_score],
              family_members(slot_results, 1), b)

(***************************************************************************)
(* The optimizer as a state machine.                                        *)
(***************************************************************************)

VARIABLES
  build,                    \* the BuildDefinition of the run
  inventory,                \* RelicInventory.relics
  vessels,                  \* slot colours of the hero's vessels, in order
  top_n,                    \* optimize_all_vessels(top_n=...)
  max_per_vessel,           \* optimize_all_vessels(max_per_vessel=...)
  time_budget,              \* backtrack entries that start before the deadline (-1: all)
  pc,                       \* position in optimize_all_vessels / optimize
  vi,                       \* index of the vessel being optimized
  slot_owner,               \* _pre_assign_pinned: pinned handle per slot
  pinned_map,               \* _pre_assign_pinned: handle -> relic
  free_slot_indices,
  candidates_per_free_slot,
  stack,                    \* frames of backtrack(): [slot_idx, score, ci]
  call,                     \* arguments of the backtrack() call being entered
  current, used, v_eff, v_excl, v_no_stack_excl, v_no_stack_compat, curse_counts,
  top, seen, min_threshold, \* the nonlocal state of _backtrack_solve
  time_left,
  raw,                      \* merged full assignments of the vessel
  ri,                       \* index of the assignment being built
  loop,                     \* _build_vessel_result after the slot loop
  all_results,              \* optimize_all_vessels: all_results
  output                    \* what optimize_all_vessels returned

VARIABLES
  data,                     \* the USERDATA blob through Layer 1, as 32-bit words
  entry_table,              \* Layer 2 (ItemEntry): the handle field of each stored entry
  offset,                   \* _parse_items: offset
  items,                    \* _parse_items: items
  relics,                   \* parse_relics: relics
  end_offset                \* parse_relics: the returned items_end_offset

VARIABLES
  request,                  \* OptimizeRequest.relics of an inline request
  owned                     \* RelicInventory.relics of the inventory constructed

VARIABLES
  old_relics,               \* upload_save: the Relic rows of the user
  builds,                   \* upload_save: pinned_relics of each Build of the user
  new_characters,           \* upload_save: relics of each character of the uploaded save
  handle_remap,             \* upload_save: handle_remap
  prev                      \* old_relics and builds as they were before the upload

VARIABLES
  scored_build,             \* the BuildDefinition the scorer is called with
  tiers_object,             \* which dict object scored_build.tiers is
  name_cache_tiers,         \* BuildScorer._name_cache_tiers: a dict object, or None
  name_cache,               \* BuildScorer._name_cache, as the tiers it was built from
  returned,                 \* the last call made on the scorer, with what it returned
  queried                   \* the answers of the resolver to the last effect query

VARIABLES
  first_run                 \* the build and the results of an earlier optimize call

VARIABLES
  sl2,                      \* decrypt_sl2: raw, the bytes of the input file
  entry_index,              \* decrypt_sl2: i
  written,                  \* the files written to the output directory, in order
  outcome                   \* how decrypt_sl2 ended: returned, or the exception raised

constructed == <<request, owned>>

stored == <<old_relics, builds, new_characters, handle_remap, prev>>

scoring == <<scored_build, tiers_object, name_cache_tiers, name_cache, returned, queried>>

decrypting == <<sl2, entry_index, written, outcome>>

extra == <<constructed, stored, scoring, first_run, decrypting>>

ConstructedIdle == request = <<>> /\ owned = <<>>

StoredIdle ==
  /\ old_relics = <<>> /\ builds = <<>> /\ new_characters = <<>>
  /\ handle_remap = <<>> /\ prev = [relics |-> <<>>, builds |-> <<>>]

ScoringIdle ==
  /\ scored_build = <<>> /\ tiers_object = 0 /\ name_cache_tiers = 0
  /\ name_cache = <<>> /\ returned = <<>> /\ queried = <<>>

DecryptIdle == sl2 = <<>> /\ entry_index = 0 /\ written = <<>> /\ outcome = ""

RestIdle == first_run = <<>> /\ DecryptIdle

ExtraIdle == ConstructedIdle /\ StoredIdle /\ ScoringIdle /\ RestIdle

parser == <<data, entry_table, offset, items, relics, end_offset, extra>>

inputs == <<build, inventory, vessels, top_n, max_per_vessel, time_budget>>

setup == <<slot_owner, pinned_map, free_slot_indices, candidates_per_free_slot>>

frame_state == <<current, used, v_eff, v_excl, v_no_stack_excl, v_no_stack_compat, curse_counts>>

search == <<stack, call, top, seen, min_threshold, time_left>>

building == <<raw, ri, loop>>

optimizer == <<inputs, vi, setup, frame_state, search, building, all_results, output>>

vars == <<parser, inputs, pc, vi, setup, frame_state, search, building, all_results, output>>

num_slots == num_slots_of(build)

slot_colors == vessels[vi]

num_free == Len(free_slot_indices)

NoCall == [slot_idx |-> 0, score |-> 0]

EmptySlot == [relic |-> NoRelic, score |-> 0]

pre_assigned == pre_assign_pinned(build, inventory, slot_colors, num_slots)

\* optimize(): the vessel cannot take the pinned relics and yields no result
ExcludeVessel ==
  /\ pc = "optimize" /\ vi <= Len(vessels)
  /\ ~pre_assigned.ok
  /\ vi' = vi + 1
  /\ UNCHANGED <<parser, inputs, pc, setup, frame_state, search, building, all_results, output>>

candidate_lists(free, pinned_handles) ==
  [j \in 1..Len(free) |->
     slot_candidates(build, inventory, slot_colors[free[j]], is_deep_slot(free[j]), pinned_handles)]

total_candidates(cands) == SumSeq([j \in 1..Len(cands) |-> Len(cands[j])])

\* optimize(): every slot is pinned, raw_free = [[]]
NoFreeSlot(pre) ==
  /\ pre.ok
  /\ free_slot_indices_of(pre.slot_owner) = <<>>
  /\ slot_owner' = pre.slot_owner
  /\ pinned_map' = pre.pinned_map
  /\ free_slot_indices' = <<>>
  /\ candidates_per_free_slot' = <<>>
  /\ top' = <<>>
  /\ current' = <<>>
  /\ pc' = "merge"

StartNoFree ==
  /\ pc = "optimize" /\ vi <= Len(vessels)
  /\ NoFreeSlot(pre_assigned)
  /\ UNCHANGED <<parser, inputs, vi, used, v_eff, v_excl, v_no_stack_excl, v_no_stack_compat,
                 curse_counts, stack, call, seen, min_threshold, time_left, building,
                 all_results, output>>

\* optimize() selecting branch-and-bound, and the first call backtrack(0, ...)
Backtrack(pre, free, cands) ==
  /\ pre.ok
  /\ free # <<>>
  /\ total_candidates(cands) <= BACKTRACK_MAX_CANDIDATES
  /\ Len(free) <= BACKTRACK_MAX_FREE
  /\ slot_owner' = pre.slot_owner
  /\ pinned_map' = pre.pinned_map
  /\ free_slot_indices' = free
  /\ candidates_per_free_slot' = cands
  /\ current' = [j \in 1..Len(free) |-> EmptySlot]

BacktrackOn(pre) ==
  Backtrack(pre, free_slot_indices_of(pre.slot_owner),
            candidate_lists(free_slot_indices_of(pre.slot_owner), DOMAIN pre.pinned_map))

StartBacktrack ==
  /\ pc = "optimize" /\ vi <= Len(vessels)
  /\ BacktrackOn(pre_assigned)
  /\ stack' = <<>>
  /\ call' = [slot_idx |-> 1, score |-> 0]
  /\ used' = {} /\ v_eff' = {} /\ v_excl' = {} /\ v_no_stack_excl' = {}
  /\ v_no_stack_compat' = {} /\ curse_counts' = <<>>
  /\ top' = <<>> /\ seen' = {} /\ min_threshold' = -1
  /\ time_left' = time_budget
  /\ pc' = "bt_enter"
  /\ UNCHANGED <<parser, inputs, vi, building, all_results, output>>

\* backtrack(): time.time() > deadline
BtDeadline ==
  /\ pc = "bt_enter" /\ time_left = 0
  /\ pc' = "bt_return"
  /\ UNCHANGED <<parser, inputs, vi, setup, frame_state, search, building, all_results, output>>

Tick == time_left' = IF time_left > 0 THEN time_left - 1 ELSE time_left

handles_of(assignment) ==
  {assignment[j].relic.ga_handle : j \in {k \in 1..Len(assignment) : assignment[k].relic # NoRelic}}

\* top.append((score, list(current))); top.sort(key=score, reverse=True)
top_inserted(tp, score, assignment) ==
  SelectSeq(tp, LAMBDA t : t.score >= score)
    \o <<[score |-> score, assignment |-> assignment]>>
    \o SelectSeq(tp, LAMBDA t : t.score < score)

\* the list never shortened
top_untrimmed(grown, seen_) == [top |-> grown, seen |-> seen_]

\* if len(top) > top_n: top.pop(), seen.discard(its handles)
top_trimmed(grown, seen_) ==
  IF Len(grown) > max_per_vessel
  THEN [top |-> SubSeq(grown, 1, Len(grown) - 1),
        seen |-> seen_ \ {handles_of(grown[Len(grown)].assignment)}]
  ELSE [top |-> grown, seen |-> seen_]

threshold_of(tp) == IF Len(tp) = max_per_vessel THEN tp[Len(tp)].score ELSE -1

Accepted(trimmed) ==
  /\ top' = trimmed.top
  /\ seen' = trimmed.seen
  /\ min_threshold' = threshold_of(trimmed.top)

\* backtrack(): slot_idx == num_slots, a complete assignment
BtLeaf ==
  /\ pc = "bt_enter" /\ time_left # 0 /\ call.slot_idx = num_free + 1
  /\ Tick
  /\ IF (call.score > min_threshold \/ Len(top) < max_per_vessel) /\ used \notin seen
     THEN Accepted(top_trimmed(top_inserted(top, call.score, current), seen \cup {used}))
     ELSE UNCHANGED <<top, seen, min_threshold>>
  /\ pc' = "bt_return"
  /\ UNCHANGED <<parser, inputs, vi, setup, frame_state, stack, call, building, all_results, output>>

\* backtrack(): current[slot_idx] = (None, 0) and the recursive call for it
BtTryEmpty ==
  /\ pc = "bt_enter" /\ time_left # 0 /\ call.slot_idx <= num_free
  /\ Tick
  /\ current' = [current EXCEPT ![call.slot_idx] = EmptySlot]
  /\ stack' = Append(stack, [slot_idx |-> call.slot_idx, score |-> call.score, ci |-> 0])
  /\ call' = [slot_idx |-> call.slot_idx + 1, score |-> call.score]
  /\ UNCHANGED <<parser, inputs, pc, vi, setup, used, v_eff, v_excl, v_no_stack_excl,
                 v_no_stack_compat, curse_counts, top, seen, min_threshold, building,
                 all_results, output>>

TopFrame == stack[Len(stack)]

\* remaining_max: the best pre-score of every later slot (0 for a slot without candidates)
remaining_max(slot_idx) ==
  SumSeq([k \in 1..(num_free - slot_idx) |->
            IF candidates_per_free_slot[slot_idx + k] = <<>> THEN 0
            ELSE candidates_per_free_slot[slot_idx + k][1][1]])

\* the stacking sets of the search, as the scorer reads them
search_sets == VesselSets(v_eff, v_excl, v_no_stack_excl, v_no_stack_compat)

\* the contextual score of a candidate under the present frame state
candidate_ctx_score(cand) == score_relic_in_context(cand[2], build, search_sets, curse_counts)

\* the loop body's three `continue` tests
skipped(cand, bound) ==
  IF cand[2].ga_handle \in used THEN TRUE
  ELSE IF cand[1] <= bound THEN TRUE
  ELSE candidate_ctx_score(cand) <= bound

candidate_skipped(slot_idx, score, c) ==
  skipped(candidates_per_free_slot[slot_idx][c], min_threshold - score - remaining_max(slot_idx))

\* the candidates after position ci that the loop does not skip
open_candidates(f) ==
  {c \in (f.ci + 1)..Len(candidates_per_free_slot[f.slot_idx]) :
     ~candidate_skipped(f.slot_idx, f.score, c)}

\* backtrack(): the call for the empty slot has returned; the candidate loop starts
BtAfterEmpty ==
  /\ pc = "bt_return" /\ stack # <<>> /\ TopFrame.ci = 0
  /\ pc' = "bt_loop"
  /\ UNCHANGED <<parser, inputs, vi, setup, frame_state, search, building, all_results, output>>

\* used.discard(handle); v_eff -= added_eff; ...; the curse counts go down
Popped(relic, adds) ==
  /\ used' = used \ {relic.ga_handle}
  /\ v_eff' = v_eff \ adds.effect_ids
  /\ v_excl' = v_excl \ adds.exclusivity_ids
  /\ v_no_stack_excl' = v_no_stack_excl \ adds.no_stack_exclusivity_ids
  /\ v_no_stack_compat' = v_no_stack_compat \ adds.no_stack_compat_ids
  /\ curse_counts' = remove_curses(curse_counts, get_relic_curse_ids(relic))

PoppedRelic(relic) == Popped(relic, get_relic_stacking_adds(relic))

\* backtrack(): the call for a placed candidate has returned; its additions are removed
BtPop ==
  /\ pc = "bt_return" /\ stack # <<>> /\ TopFrame.ci > 0
  /\ PoppedRelic(candidates_per_free_slot[TopFrame.slot_idx][TopFrame.ci][2])
  /\ pc' = "bt_loop"
  /\ UNCHANGED <<parser, inputs, vi, setup, current, search, building, all_results, output>>

\* current[slot] = (relic, ctx_score); used.add(handle); the sets and counts grow
Pushed(slot_idx, score, c, relic, ctx_score, adds) ==
  /\ current' = [current EXCEPT ![slot_idx] = [relic |-> relic, score |-> ctx_score]]
  /\ used' = used \cup {relic.ga_handle}
  /\ v_eff' = v_eff \cup adds.effect_ids
  /\ v_excl' = v_excl \cup adds.exclusivity_ids
  /\ v_no_stack_excl' = v_no_stack_excl \cup adds.no_stack_exclusivity_ids
  /\ v_no_stack_compat' = v_no_stack_compat \cup adds.no_stack_compat_ids
  /\ curse_counts' = add_curses(curse_counts, get_relic_curse_ids(relic))
  /\ stack' = [stack EXCEPT ![Len(stack)].ci = c]
  /\ call' = [slot_idx |-> slot_idx + 1, score |-> score + ctx_score]

PushedCandidate(f, c, cand) ==
  Pushed(f.slot_idx, f.score, c, cand[2], candidate_ctx_score(cand), get_relic_stacking_adds(cand[2]))

PlaceAt(f, c) == PushedCandidate(f, c, candidates_per_free_slot[f.slot_idx][c])

PlaceFirst(f, open) == open # {} /\ PlaceAt(f, Least(open))

\* backtrack(): the next candidate that is not skipped is placed and explored
BtPlace ==
  /\ pc = "bt_loop"
  /\ PlaceFirst(TopFrame, open_candidates(TopFrame))
  /\ pc' = "bt_enter"
  /\ UNCHANGED <<parser, inputs, vi, setup, top, seen, min_threshold, time_left, building,
                 all_results, output>>

\* backtrack(): the candidate loop is over, the call returns
BtExhausted ==
  /\ pc = "bt_loop" /\ open_candidates(TopFrame) = {}
  /\ stack' = SubSeq(stack, 1, Len(stack) - 1)
  /\ pc' = "bt_return"
  /\ UNCHANGED <<parser, inputs, vi, setup, frame_state, call, top, seen, min_threshold, time_left,
                 building, all_results, output>>

\* _backtrack_solve returns: the assignments of top, or one all-empty assignment
BtDone ==
  /\ pc = "bt_return" /\ stack = <<>>
  /\ pc' = "merge"
  /\ UNCHANGED <<parser, inputs, vi, setup, frame_state, search, building, all_results, output>>

(***************************************************************************)
(* _greedy_solve and _greedy_solve_once.                                    *)
(* A pass state is [assigned, used, vessel_eff, vessel_excl,                *)
(* vessel_no_stack_excl, vessel_no_stack_compat, vessel_curse_counts].      *)
(***************************************************************************)

GreedyState(excluded_handles) ==
  [assigned |-> <<>>, used |-> excluded_handles, vessel_eff |-> {}, vessel_excl |-> {},
   vessel_no_stack_excl |-> {}, vessel_no_stack_compat |-> {}, vessel_curse_counts |-> <<>>]

\* the contextual score of a candidate under the state of the pass
greedy_score(cand, g, b) ==
  score_relic_in_context(cand[2], b, loop_sets(g), g.vessel_curse_counts)

\* the candidates of the slot that the inner loop does not skip
greedy_open(cands, g) == SelectSeq(cands, LAMBDA c : c[2].ga_handle \notin g.used)

\* `if best is None or score > best[0]`: the first candidate of the greatest score
first_best(open, g, b) ==
  CHOOSE k \in 1..Len(open) :
    /\ \A j \in 1..Len(open) : greedy_score(open[j], g, b) <= greedy_score(open[k], g, b)
    /\ \A j \in 1..(k - 1) : greedy_score(open[j], g, b) < greedy_score(open[k], g, b)

\* the state of the pass after the relic was assigned to the slot
greedy_placed(g, relic, score, adds) ==
  [assigned |-> Append(g.assigned, [relic |-> relic, score |-> score]),
   used |-> g.used \cup {relic.ga_handle},
   vessel_eff |-> g.vessel_eff \cup adds.effect_ids,
   vessel_excl |-> g.vessel_excl \cup adds.exclusivity_ids,
   vessel_no_stack_excl |-> g.vessel_no_stack_excl \cup adds.no_stack_exclusivity_ids,
   vessel_no_stack_compat |-> g.vessel_no_stack_compat \cup adds.no_stack_compat_ids,
   vessel_curse_counts |-> add_curses(g.vessel_curse_counts, get_relic_curse_ids(relic))]

greedy_take(g, cand, b) ==
  greedy_placed(g, cand[2], greedy_score(cand, g, b), get_relic_stacking_adds(cand[2]))

\* one iteration of `for slot_idx in range(num_slots)`
greedy_slot(g, open, b) ==
  IF open = <<>> THEN [g EXCEPT !.assigned = Append(@, EmptySlot)]
  ELSE greedy_take(g, open[first_best(open, g, b)], b)

RECURSIVE greedy_slots(_, _, _, _)
greedy_slots(g, cands_per_slot, slot_idx, b) ==
  IF slot_idx > Len(cands_per_slot) THEN g
  ELSE greedy_slots(greedy_slot(g, greedy_open(cands_per_slot[slot_idx], g), b),
                    cands_per_slot, slot_idx + 1, b)

\* _greedy_solve_once: the assignment of one pass
greedy_solve_once(cands_per_slot, b, excluded_handles) ==
  greedy_slots(GreedyState(excluded_handles), cands_per_slot, 1, b).assigned

\* "exclude best relic from next pass": the first relic of the greatest score above -1
RECURSIVE best_handle_of(_, _, _, _)
best_handle_of(assignment, k, best_handle, best_score) ==
  IF k > Len(assignment) THEN best_handle
  ELSE IF assignment[k].relic # NoRelic /\ assignment[k].score > best_score
       THEN best_handle_of(assignment, k + 1, assignment[k].relic.ga_handle, assignment[k].score)
  ELSE best_handle_of(assignment, k + 1, best_handle, best_score)

\* `if best_handle: excluded.add(best_handle)`
excluded_after(excluded, best_handle) ==
  IF best_handle # NoHandle THEN excluded \cup {best_handle} ELSE excluded

\* the passes of `for _ in range(top_n)` from pass n on
RECURSIVE greedy_passes(_, _, _, _, _, _, _)
RECURSIVE greedy_pass(_, _, _, _, _, _, _, _)
greedy_passes(n, top_n_, results, excluded, seen_, cands_per_slot, b) ==
  IF n > top_n_ THEN results
  ELSE greedy_pass(n, top_n_, results, excluded, seen_, cands_per_slot, b,
                   greedy_solve_once(cands_per_slot, b, excluded))

\* one pass: break on an empty or a seen handle set, else keep the assignment
greedy_pass(n, top_n_, results, excluded, seen_, cands_per_slot, b, assignment) ==
  IF handles_of(assignment) = {} \/ handles_of(assignment) \in seen_ THEN results
  ELSE greedy_passes(n + 1, top_n_, Append(results, assignment),
                     excluded_after(excluded, best_handle_of(assignment, 1, NoHandle, -1)),
                     seen_ \cup {handles_of(assignment)}, cands_per_slot, b)

\* _greedy_solve without its fallback `or [[(None, 0)] * num_slots]`
greedy_solve(cands_per_slot, b, top_n_) == greedy_passes(1, top_n_, <<>>, {}, {}, cands_per_slot, b)

\* the sum of the slot scores of an assignment
assignment_score(assignment) == SumSeq([j \in 1..Len(assignment) |-> assignment[j].score])

\* optimize() selecting the greedy solver
Greedy(pre, free, cands) ==
  /\ pre.ok
  /\ free # <<>>
  /\ ~(total_candidates(cands) <= BACKTRACK_MAX_CANDIDATES /\ Len(free) <= BACKTRACK_MAX_FREE)
  /\ slot_owner' = pre.slot_owner
  /\ pinned_map' = pre.pinned_map
  /\ free_slot_indices' = free
  /\ candidates_per_free_slot' = cands
  /\ current' = <<>>
  /\ top' = [k \in 1..Len(greedy_solve(cands, build, max_per_vessel)) |->
               [score |-> assignment_score(greedy_solve(cands, build, max_per_vessel)[k]),
                assignment |-> greedy_solve(cands, build, max_per_vessel)[k]]]

GreedyOn(pre) ==
  Greedy(pre, free_slot_indices_of(pre.slot_owner),
         candidate_lists(free_slot_indices_of(pre.slot_owner), DOMAIN pre.pinned_map))

\* the whole call of _greedy_solve; its assignments are kept in top, in the order
\* of the passes, for the merge
StartGreedy ==
  /\ pc = "optimize" /\ vi <= Len(vessels)
  /\ GreedyOn(pre_assigned)
  /\ pc' = "merge"
  /\ UNCHANGED <<parser, inputs, vi, used, v_eff, v_excl, v_no_stack_excl, v_no_stack_compat,
                 curse_counts, stack, call, seen, min_threshold, time_left, building,
                 all_results, output>>

raw_free ==
  IF num_free = 0 THEN << <<>> >>
  ELSE IF top = <<>> THEN << [j \in 1..num_free |-> EmptySlot] >>
  ELSE [k \in 1..Len(top) |-> top[k].assignment]

\* the slot of free_slot_indices that holds slot i
free_position(i) == CHOOSE j \in 1..num_free : free_slot_indices[j] = i

\* optimize(): merge the free-slot assignments with the pinned relics
merged(free_assignment) ==
  [i \in 1..num_slots |->
     IF slot_owner[i] # NoHandle THEN pinned_map[slot_owner[i]]
     ELSE free_assignment[free_position(i)].relic]

Merge ==
  /\ pc = "merge"
  /\ raw' = [k \in 1..Len(raw_free) |-> merged(raw_free[k])]
  /\ ri' = 1
  /\ pc' = "build"
  /\ UNCHANGED <<parser, inputs, vi, setup, frame_state, search, loop, all_results, output>>

\* _build_vessel_result: the slot loop over one merged assignment
ScoreSlots ==
  /\ pc = "build" /\ ri <= Len(raw)
  /\ loop' = score_slots(EmptyLoopState, raw[ri], build)
  /\ pc' = "fix"
  /\ UNCHANGED <<parser, inputs, vi, setup, frame_state, search, raw, ri, all_results, output>>

\* The uncovered required identifiers that have a usable display name.
named_uncovered(assigned) ==
  {r \in build.tiers["required"] \ assigned : get_effect_name(r).text \notin {"", "Empty"}}

\* required_name_to_id is filled by iterating a set: for a display name shared by
\* several uncovered identifiers the entry that remains is the one iterated last.
names_of(ids) == {get_effect_name(r) : r \in ids}

name_to_id_maps(ids, names) ==
  {w \in [names -> ids] : \A n \in names : get_effect_name(w[n]) = n}

name_to_id_over(ids) == name_to_id_maps(ids, names_of(ids))

name_to_id_choices(assigned) == name_to_id_over(named_uncovered(assigned))

\* assigned_effect_ids after the name-based resolution
name_resolved(assigned, required_name_to_id) ==
  assigned \cup {required_name_to_id[get_effect_name(eff)] :
                   eff \in {e \in assigned : get_effect_name(e) \in DOMAIN required_name_to_id}}

missing_of(assigned) ==
  [ids |-> build.tiers["required"] \ assigned,
   families |-> {f \in build.family_tiers["required"] : assigned \cap get_family_effect_ids(f) = {}}]

VesselResult(fixed, missing) ==
  [vessel_id |-> vi,
   slot_colors |-> slot_colors,
   assignments |-> [i \in 1..num_slots |->
                      [slot_index |-> i, slot_color |-> slot_colors[i], is_deep |-> is_deep_slot(i),
                       relic |-> fixed.slot_results[i].relic,
                       score |-> fixed.slot_results[i].score,
                       breakdown |-> fixed.slot_results[i].breakdown]],
   total_score |-> fixed.total_score,
   meets_requirements |-> missing.ids = {} /\ missing.families = {},
   missing_requirements |-> missing]

\* _build_vessel_result: direction correction, requirements check, the result
FixAndFinish ==
  /\ pc = "fix"
  /\ \E w \in name_to_id_choices(loop.assigned_effect_ids) :
       all_results' = Append(all_results,
          VesselResult(fix_tier_family_direction(loop.slot_results, build, loop.total_score),
                       missing_of(name_resolved(loop.assigned_effect_ids, w))))
  /\ ri' = ri + 1
  /\ pc' = "build"
  /\ UNCHANGED <<parser, inputs, vi, setup, frame_state, search, raw, loop, output>>

\* optimize_all_vessels: the results of the vessel are in all_results, next vessel
NextVessel ==
  /\ pc = "build" /\ ri > Len(raw)
  /\ vi' = vi + 1
  /\ pc' = "optimize"
  /\ UNCHANGED <<parser, inputs, setup, frame_state, search, building, all_results, output>>

\* all_results.sort(key=lambda r: (not r.meets_requirements, -r.total_score))
\* the sort key without `not r.meets_requirements`
score_key_le(a, b) == -a.total_score <= -b.total_score

\* key=lambda r: (not r.meets_requirements, -r.total_score)
rank_key_le(a, b) ==
  IF a.meets_requirements # b.meets_requirements THEN a.meets_requirements
  ELSE -a.total_score <= -b.total_score

\* x put behind every result whose key is not greater (the sort is stable)
result_inserted(rest, x) ==
  SelectSeq(rest, LAMBDA r : rank_key_le(r, x)) \o <<x>>
    \o SelectSeq(rest, LAMBDA r : ~rank_key_le(r, x))

RECURSIVE sorted_results(_)
sorted_results(rs) ==
  IF rs = <<>> THEN <<>>
  ELSE result_inserted(sorted_results(SubSeq(rs, 1, Len(rs) - 1)), rs[Len(rs)])

\* all_results[:top_n]
take(s, n) == SubSeq(s, 1, IF Len(s) < n THEN Len(s) ELSE n)

\* optimize_all_vessels: sort, truncate, return
Rank ==
  /\ pc = "optimize" /\ vi > Len(vessels)
  /\ output' = take(sorted_results(all_results), top_n)
  /\ pc' = "done"
  /\ UNCHANGED <<parser, inputs, vi, setup, frame_state, search, building, all_results>>

\* the handles of build.pinned_relics that no relic of the inventory has
absent_pins(b, inv) == {h \in Range(b.pinned_relics) : \A k \in 1..Len(inv) : inv[k].ga_handle # h}

without_pins(b, hs) == [b EXCEPT !.pinned_relics = SelectSeq(@, LAMBDA h : h \notin hs)]

\* The caller runs optimize_all_vessels again on the same inventory and vessels,
\* with the handles that match no relic taken out of build.pinned_relics.
Rerun ==
  /\ pc = "done" /\ first_run = <<>>
  /\ absent_pins(build, inventory) # {}
  /\ first_run' = [build |-> build, output |-> output]
  /\ build' = without_pins(build, absent_pins(build, inventory))
  /\ pc' = "optimize" /\ vi' = 1
  /\ slot_owner' = <<>> /\ pinned_map' = <<>> /\ free_slot_indices' = <<>>
  /\ candidates_per_free_slot' = <<>>
  /\ stack' = <<>> /\ call' = NoCall /\ current' = <<>> /\ used' = {}
  /\ v_eff' = {} /\ v_excl' = {} /\ v_no_stack_excl' = {} /\ v_no_stack_compat' = {}
  /\ curse_counts' = <<>> /\ top' = <<>> /\ seen' = {} /\ min_threshold' = -1 /\ time_left' = -1
  /\ raw' = <<>> /\ ri' = 1 /\ loop' = EmptyLoopState
  /\ all_results' = <<>> /\ output' = <<>>
  /\ UNCHANGED <<data, entry_table, offset, items, relics, end_offset, constructed, stored, scoring, decrypting, inventory, vessels, top_n, max_per_vessel, time_budget>>

(***************************************************************************)
(* The inputs of a run.                                                     *)
(***************************************************************************)

\* Largest inventory of a run, and the largest number of results asked for.
MaxInventory == 3
MaxTopN == 3

\* effects / curses as the save holds them: three entries, EMPTY_EFFECT for none
Pad(effs) == effs \o [k \in 1..(3 - Len(effs)) |-> EMPTY_EFFECT]

Relic(h, color, deep, effs, curses) ==
  [ga_handle |-> h, color |-> color, is_deep |-> deep, effects |-> Pad(effs), curses |-> Pad(curses)]

\* The relics inventories are drawn from; a relic's handle is its position.
Catalogue ==
  << Relic(1, "Red", FALSE, <<HP_RESTORE_BASE>>, <<>>),
     Relic(2, "Blue", FALSE, <<HP_RESTORE_PLUS1>>, <<>>),
     Relic(3, "Blue", FALSE, <<HP_RESTORE_PLUS2>>, <<>>),
     Relic(4, "Red", FALSE, <<HP_RESTORE_PLUS1, PHYSICAL_ATK_1>>, <<>>),
     Relic(5, "Green", FALSE, <<TAKING_ATTACKS>>, <<UNKNOWN_EFFECT>>),
     Relic(6, "Green", FALSE, <<TAKING_ATTACKS_ALIAS, IMBUE_MAGIC>>, <<UNKNOWN_EFFECT>>),
     Relic(7, "Yellow", FALSE, <<IMBUE_FIRE, TAKING_ATTACKS_TWIN, PHYSICAL_ATK_1>>, <<>>),
     Relic(8, "Red", TRUE, <<HP_RESTORE_PLUS2>>, <<>>),
     Relic(9, "Blue", TRUE, <<HP_RESTORE_BASE, PHYSICAL_ATK_1>>, <<>>),
     Relic(10, "Red", FALSE, <<GUARD_COUNTER_HP>>, <<>>),
     Relic(11, "Blue", FALSE, <<IMBUE_FIRE>>, <<>>),
     Relic(12, "Red", FALSE, <<IMBUE_MAGIC>>, <<>>),
     Relic(13, "Green", FALSE, <<PHYSICAL_ATK_1>>, <<UNKNOWN_EFFECT, UNKNOWN_EFFECT>>) >>

RECURSIVE SeqOfSet(_)
SeqOfSet(S) ==
  IF S = {} THEN <<>>
  ELSE LET m == CHOOSE x \in S : \A y \in S : x <= y
       IN <<Catalogue[m]>> \o SeqOfSet(S \ {m})

\* inventories: the relics of the catalogue at the chosen positions, in order
Inventories(positions, lo) ==
  {SeqOfSet(S) : S \in {T \in SUBSET positions : Cardinality(T) >= lo /\ Cardinality(T) <= MaxInventory}}

NoTiers == [t \in TierKeySet |-> {}]

\* tier_weights = None
NoWeights == <<>>

Build(tiers, family_tiers, include_deep, curse_max, pinned_relics) ==
  [tiers |-> tiers, family_tiers |-> family_tiers, include_deep |-> include_deep,
   curse_max |-> curse_max, pinned_relics |-> pinned_relics, tier_weights |-> NoWeights]

\* BuildDefinition.get_effective_weights: {**TIER_WEIGHTS, **self.tier_weights}
merged_weights(tier_weights) ==
  [t \in TierKeySet \cup DOMAIN tier_weights |->
     IF t \in DOMAIN tier_weights THEN tier_weights[t] ELSE TIER_WEIGHTS[t]]

get_effective_weights(b) ==
  IF b.tier_weights # NoWeights THEN merged_weights(b.tier_weights) ELSE TIER_WEIGHTS

Run(b, inv, vs, n, m, t) ==
  [build |-> b, inventory |-> inv, vessels |-> vs, top_n |-> n, max_per_vessel |-> m,
   time_budget |-> t]

HP_FAMILY == {HP_RESTORE_BASE, HP_RESTORE_PLUS1, HP_RESTORE_PLUS2}

FamilyTiers ==
  UNION {{[NoTiers EXCEPT !["preferred"] = p, !["avoid"] = a] :
            a \in {x \in {{}, {HP_RESTORE_BASE}, {HP_RESTORE_PLUS1}} : x \cap p = {}}} :
         p \in SUBSET HP_FAMILY}

\* Tier-family builds: members of the HP family preferred, avoided or unlisted,
\* or the family as a whole preferred; two vessels forcing both slot orders.
FamilyRuns ==
  {Run(Build(tiers, ftiers, FALSE, 1, <<>>), inv,
       << <<"Red", "Blue", "White">>, <<"Blue", "Red", "White">> >>, MaxTopN, 2, -1) :
     tiers \in FamilyTiers,
     ftiers \in {NoTiers},
     inv \in Inventories(1..4, 2)}
  \cup
  {Run(Build(NoTiers, [NoTiers EXCEPT !["preferred"] = {"HP Restoration"}], FALSE, 1, <<>>), inv,
       << <<"Red", "Blue", "White">>, <<"Blue", "Red", "White">> >>, MaxTopN, 2, -1) :
     inv \in Inventories(1..4, 2)}

Tiers(required, preferred, avoid, blacklist) ==
  [NoTiers EXCEPT !["required"] = required, !["preferred"] = preferred,
                  !["avoid"] = avoid, !["blacklist"] = blacklist]

DeepVessel == <<"Red", "Blue", "White", "Red", "White", "White">>

\* Pinned relics: present, absent (99), repeated, blacklisted (4 carries PHYSICAL_ATK_1),
\* in a vessel with deep slots; a vessel without a slot for the pin; a vessel the pins fill.
PinRuns ==
  {Run(Build(Tiers({}, HP_FAMILY, {}, bl), NoTiers, TRUE, 1, pins), SeqOfSet({1, 4, 8, 9}),
       <<DeepVessel>>, MaxTopN, 2, -1) :
     bl \in {{}, {PHYSICAL_ATK_1}},
     pins \in {<<>>, <<8>>, <<1>>, <<1, 8>>, <<99>>, <<1, 1>>, <<4>>, <<4, 1>>, <<9, 99, 4>>}}
  \cup
  {Run(Build(Tiers({}, HP_FAMILY \cup {PHYSICAL_ATK_1}, {}, {}), NoTiers, FALSE, 1, pins),
       SeqOfSet({1, 2, 4}),
       << <<"Blue", "Blue", "Green">>, <<"Red", "Blue", "White">> >>, MaxTopN, 2, -1) :
     pins \in {<<1>>, <<2>>, <<1, 2, 4>>, <<4, 1, 2>>, <<2, 2, 2>>}}

\* The relic with the family base pinned into the first slot, under every tier-family build.
PinnedBaseRuns ==
  {Run(Build(tiers, NoTiers, FALSE, 1, <<1>>), SeqOfSet({1, 2, 3}),
       << <<"Red", "Blue", "White">> >>, MaxTopN, 2, -1) :
     tiers \in FamilyTiers}

ThreeVessels ==
  << <<"Red", "Blue", "Blue">>, <<"Green", "Green", "White">>, <<"Green", "Yellow", "Red">> >>

\* Required effects and families over three vessels; aliases of one display name.
RequirementRuns ==
  {Run(Build(Tiers(req, {IMBUE_MAGIC, IMBUE_FIRE, PHYSICAL_ATK_1}, {}, {}),
             [NoTiers EXCEPT !["required"] = fam], FALSE, 1, <<>>),
       inv, ThreeVessels, n, 1, -1) :
     req \in {{}, {TAKING_ATTACKS}, {TAKING_ATTACKS_ALIAS}, {TAKING_ATTACKS_ALIAS, TAKING_ATTACKS_TWIN},
              {HP_RESTORE_PLUS1, TAKING_ATTACKS_TWIN}, {UNKNOWN_EFFECT}},
     fam \in {{}, {"HP Restoration"}},
     inv \in {SeqOfSet({2, 5, 7}), SeqOfSet({4, 6}), SeqOfSet({3, 5})},
     n \in 1..MaxTopN}

\* A deadline that passes during the search, and a curse cap of zero or one.
DeadlineRuns ==
  {Run(Build(Tiers({}, {TAKING_ATTACKS, IMBUE_MAGIC, PHYSICAL_ATK_1}, {UNKNOWN_EFFECT}, {}),
             NoTiers, FALSE, cm, <<>>),
       SeqOfSet({5, 6, 7}), << <<"Green", "White", "White">> >>, MaxTopN, 2, t) :
     cm \in {0, 1}, t \in {-1, 0, 3, 8}}

\* Weapon imbues (one exclusivity group) and mega-group effects (compatibility 100,
\* no exclusivity group) in the tiers of a build; two vessels forcing both slot orders.
ExclusivityRuns ==
  {Run(Build(tiers, NoTiers, FALSE, 1, <<>>), inv,
       << <<"Red", "Blue", "White">>, <<"Blue", "Red", "White">>, <<"Red", "White", "White">>,
          <<"Green", "Red", "White">> >>,
       MaxTopN, 2, -1) :
     tiers \in {Tiers({}, {IMBUE_MAGIC, IMBUE_FIRE, TAKING_ATTACKS, GUARD_COUNTER_HP}, {}, {}),
                Tiers({IMBUE_MAGIC}, {IMBUE_FIRE, GUARD_COUNTER_HP}, {TAKING_ATTACKS}, {}),
                Tiers({TAKING_ATTACKS}, {IMBUE_MAGIC, PHYSICAL_ATK_1}, {IMBUE_FIRE}, {}),
                Tiers({}, {IMBUE_MAGIC, TAKING_ATTACKS_TWIN}, {}, {}),
                Tiers({IMBUE_MAGIC}, {TAKING_ATTACKS, GUARD_COUNTER_HP}, {}, {})},
     inv \in {SeqOfSet({11, 12}), SeqOfSet({5, 10, 12}), SeqOfSet({10, 11, 12}),
              SeqOfSet({6, 7, 10})}}
  \cup
  {Run(Build(Tiers({}, {IMBUE_MAGIC, IMBUE_FIRE, GUARD_COUNTER_HP}, {}, {}), NoTiers, FALSE, 1,
             <<11, 12>>),
       SeqOfSet({10, 11, 12}),
       << <<"Red", "Blue", "White">>, <<"Blue", "Red", "White">> >>, MaxTopN, 2, -1)}

GreedyInventory == 67

\* an inventory large enough for more than BACKTRACK_MAX_CANDIDATES candidates in
\* the six slots of a vessel: standard and deep relics in turn, with the effects of
\* the catalogue's relics 1..4 and 8..9, every handle once
GreedyPattern(h) ==
  IF h % 2 = 1 THEN Catalogue[(((h - 1) \div 2) % 4) + 1] ELSE Catalogue[8 + ((h \div 2) % 2)]

GreedyRelics == [h \in 1..GreedyInventory |-> [GreedyPattern(h) EXCEPT !.ga_handle = h]]

\* Runs in which optimize selects the greedy solver.
GreedyRuns ==
  {Run(Build(tiers, NoTiers, TRUE, 1, <<>>), GreedyRelics,
       << <<"White", "White", "White", "White", "White", "White">> >>, MaxTopN, m, -1) :
     tiers \in {NoTiers, [NoTiers EXCEPT !["preferred"] = {HP_RESTORE_PLUS1}],
                [NoTiers EXCEPT !["preferred"] = HP_FAMILY, !["avoid"] = {PHYSICAL_ATK_1}],
                [NoTiers EXCEPT !["avoid"] = HP_FAMILY \cup {PHYSICAL_ATK_1}]},
     m \in {1, MaxTopN}}

\* Runs with a vessel that has no candidate in any slot: an empty inventory, deep
\* relics only without deep slots, and relics of colours the second vessel lacks.
NoCandidateRuns ==
  {Run(Build(Tiers({}, HP_FAMILY, {}, {}), NoTiers, FALSE, 1, <<>>), inv,
       << <<"Red", "Blue", "White">>, <<"Green", "Green", "Yellow">> >>, MaxTopN, 2, -1) :
     inv \in {<<>>, SeqOfSet({8, 9}), SeqOfSet({1, 2})}}

\* Relics with a common curse, one of them holding it twice, under curse caps 0..2.
CurseRuns ==
  {Run(Build(Tiers({}, {TAKING_ATTACKS, PHYSICAL_ATK_1}, {}, {}), NoTiers, FALSE, cm, pins), inv,
       << <<"Green", "White", "White">> >>, MaxTopN, 2, -1) :
     cm \in 0..2,
     pins \in {<<>>, <<5>>},
     inv \in {SeqOfSet({5, 6}), SeqOfSet({5, 6, 13})}}

\* Two pinned relics of which the first in list order can take the only slot the
\* other one fits.
PinOrderRuns ==
  {Run(Build(Tiers({}, HP_FAMILY, {}, {}), NoTiers, FALSE, 1, pins), SeqOfSet({1, 2, 4}),
       << <<"White", "Red", "Green">> >>, MaxTopN, 2, -1) :
     pins \in {<<1, 2>>, <<2, 1>>}}

OptimizerRuns ==
  FamilyRuns \cup PinRuns \cup PinnedBaseRuns \cup RequirementRuns \cup DeadlineRuns
    \cup ExclusivityRuns \cup GreedyRuns \cup NoCandidateRuns \cup CurseRuns
    \cup PinOrderRuns

Init ==
  /\ \E r \in OptimizerRuns :
       /\ build = r.build /\ inventory = r.inventory /\ vessels = r.vessels
       /\ top_n = r.top_n /\ max_per_vessel = r.max_per_vessel /\ time_budget = r.time_budget
  /\ pc = "optimize" /\ vi = 1
  /\ slot_owner = <<>> /\ pinned_map = <<>> /\ free_slot_indices = <<>>
  /\ candidates_per_free_slot = <<>>
  /\ stack = <<>> /\ call = NoCall /\ current = <<>> /\ used = {}
  /\ v_eff = {} /\ v_excl = {} /\ v_no_stack_excl = {} /\ v_no_stack_compat = {}
  /\ curse_counts = <<>> /\ top = <<>> /\ seen = {} /\ min_threshold = -1 /\ time_left = -1
  /\ raw = <<>> /\ ri = 1 /\ loop = EmptyLoopState
  /\ all_results = <<>> /\ output = <<>>
  /\ data = <<>> /\ entry_table = <<>> /\ offset = 0 /\ items = <<>> /\ relics = <<>>
  /\ end_offset = 0
  /\ ExtraIdle

Next ==
  \/ ExcludeVessel \/ StartNoFree \/ StartBacktrack \/ StartGreedy
  \/ BtDeadline \/ BtLeaf \/ BtTryEmpty \/ BtAfterEmpty \/ BtPop \/ BtPlace \/ BtExhausted \/ BtDone
  \/ Merge \/ ScoreSlots \/ FixAndFinish \/ NextVessel \/ Rank \/ Rerun

Spec == Init /\ [][Next]_vars

(***************************************************************************)
(* The inventory parser: Item.from_bytes, _parse_items, parse_relics.       *)
(* A 32-bit word is kept as its two's-complement value, so a handle with    *)
(* the type nibble 0x8, 0x9 or 0xC is a negative number.                    *)
(***************************************************************************)

ITEM_TYPE_WEAPON == -2147483647 - 1

ITEM_TYPE_ARMOR == -1879048192

ITEM_TYPE_RELIC == -1073741824

BASE_SIZE == 8

START_OFFSET == 20

\* gaitem_handle & 0xF0000000
type_bits(gaitem_handle) == gaitem_handle - (gaitem_handle % 268435456)

data_len(d) == 4 * Len(d)

\* struct.unpack_from("<I", data, cursor)
u32(d, cursor) == d[(cursor \div 4) + 1]

Item(gaitem_handle, item_id, e1, e2, e3, s1, s2, s3, item_offset, size) ==
  [gaitem_handle |-> gaitem_handle, item_id |-> item_id,
   effect_1 |-> e1, effect_2 |-> e2, effect_3 |-> e3,
   sec_effect1 |-> s1, sec_effect2 |-> s2, sec_effect3 |-> s3,
   offset |-> item_offset, size |-> size]

\* the relic branch of Item.from_bytes; o is the record's offset
relic_from_bytes(d, o, h, id) ==
  IF o + 16 > data_len(d) THEN Item(h, id, 0, 0, 0, 0, 0, 0, o, BASE_SIZE)
  ELSE IF o + 28 > data_len(d) THEN Item(h, id, 0, 0, 0, 0, 0, 0, o, 16)
  ELSE IF o + 56 > data_len(d)
       THEN Item(h, id, u32(d, o + 16), u32(d, o + 20), u32(d, o + 24), 0, 0, 0, o, 28)
  ELSE IF o + 68 > data_len(d)
       THEN Item(h, id, u32(d, o + 16), u32(d, o + 20), u32(d, o + 24), 0, 0, 0, o, 56)
  ELSE IF o + 72 > data_len(d)
       THEN Item(h, id, u32(d, o + 16), u32(d, o + 20), u32(d, o + 24),
                 u32(d, o + 56), u32(d, o + 60), u32(d, o + 64), o, 68)
  ELSE Item(h, id, u32(d, o + 16), u32(d, o + 20), u32(d, o + 24),
            u32(d, o + 56), u32(d, o + 60), u32(d, o + 64), o, 80)

typed_from_bytes(d, o, h, id) ==
  IF h = 0 THEN Item(h, id, 0, 0, 0, 0, 0, 0, o, BASE_SIZE)
  ELSE IF type_bits(h) = ITEM_TYPE_WEAPON THEN Item(h, id, 0, 0, 0, 0, 0, 0, o, BASE_SIZE + 80)
  ELSE IF type_bits(h) = ITEM_TYPE_ARMOR THEN Item(h, id, 0, 0, 0, 0, 0, 0, o, BASE_SIZE + 8)
  ELSE IF type_bits(h) = ITEM_TYPE_RELIC THEN relic_from_bytes(d, o, h, id)
  ELSE Item(h, id, 0, 0, 0, 0, 0, 0, o, BASE_SIZE)

\* Item.from_bytes(data, offset)
from_bytes(d, o) ==
  IF o + BASE_SIZE > data_len(d) THEN Item(0, 0, 0, 0, 0, 0, 0, 0, o, BASE_SIZE)
  ELSE typed_from_bytes(d, o, u32(d, o), u32(d, o + 4))

RawRelic(item) ==
  [ga_handle |-> item.gaitem_handle, item_id |-> item.item_id,
   effect_1 |-> item.effect_1, effect_2 |-> item.effect_2, effect_3 |-> item.effect_3,
   sec_effect1 |-> item.sec_effect1, sec_effect2 |-> item.sec_effect2,
   sec_effect3 |-> item.sec_effect3, offset |-> item.offset, size |-> item.size]

is_relic_item(item) == type_bits(item.gaitem_handle) = ITEM_TYPE_RELIC

\* the loop of parse_relics over items
relics_of(its) ==
  [k \in 1..Len(SelectSeq(its, is_relic_item)) |-> RawRelic(SelectSeq(its, is_relic_item)[k])]

\* Layer 2: the non-zero handles of the stored entries
parse_active_handles(table) == Range(table) \ {0}

\* slots of Layer 1 (5120 in the game's layout)
SLOT_COUNT == 3

\* _parse_items: one iteration of the slot loop
ParseItem ==
  /\ pc = "parse_items" /\ Len(items) < SLOT_COUNT
  /\ items' = Append(items, from_bytes(data, offset))
  /\ offset' = offset + from_bytes(data, offset).size
  /\ UNCHANGED <<data, entry_table, relics, end_offset, extra, inputs, pc, vi, setup,
                 frame_state, search, building, all_results, output>>

\* parse_relics: the relic records of items, and the end of Layer 1
ParseRelics ==
  /\ pc = "parse_items" /\ Len(items) = SLOT_COUNT
  /\ relics' = relics_of(items)
  /\ end_offset' = offset
  /\ pc' = "parsed"
  /\ UNCHANGED <<data, entry_table, offset, items, extra, inputs, vi, setup, frame_state,
                 search, building, all_results, output>>

(***************************************************************************)
(* RelicInventory: _build over the raw relics, from_owned_relics.           *)
(***************************************************************************)

RELIC_GROUPS ==
  [unique_1 |-> <<1000, 2100>>, unique_2 |-> <<10000, 19999>>,
   deep_102 |-> <<2000000, 2009999>>, deep_103 |-> <<2010000, 2019999>>]

in_group(id, g) == RELIC_GROUPS[g][1] <= id /\ id <= RELIC_GROUPS[g][2]

is_unique_relic(id) == in_group(id, "unique_1") \/ in_group(id, "unique_2")

is_deep_relic(id) == in_group(id, "deep_102") \/ in_group(id, "deep_103")

\* r.item_id - 2147483648 of the unsigned item_id, which the words hold as int32
real_id_of(item_id) ==
  IF item_id < 0 THEN item_id + 2147483647 + 1 ELSE item_id - 2147483647 - 1

\* item_id of a record with the given real identifier
item_id_of(id) == id - 2147483647 - 1

\* get_relic_origin_structure: name and colour per real identifier. A colour of
\* "None" is a null colour.
items_json ==
  [id \in {1000, 1001, 2000000} |->
     IF id = 1000 THEN [name |-> "Old Pocketwatch", color |-> "Blue"]
     ELSE IF id = 1001 THEN [name |-> "Flatstone", color |-> "None"]
     ELSE [name |-> "Deep Scene", color |-> "Green"]]

info_color(id) == IF id \in DOMAIN items_json THEN items_json[id].color ELSE "Red"

info_name(id) ==
  IF id \in DOMAIN items_json THEN [n |-> 0, text |-> items_json[id].name]
  ELSE [n |-> id, text |-> "Relic "]

relic_tier(n) == IF n >= 3 THEN "Grand" ELSE IF n = 2 THEN "Polished" ELSE "Delicate"

\* the OwnedRelic that _build appends for a raw relic
OwnedRelic(r, id) ==
  [ga_handle |-> r.ga_handle, item_id |-> r.item_id, real_id |-> id,
   color |-> info_color(id),
   effects |-> <<r.effect_1, r.effect_2, r.effect_3>>,
   curses |-> <<r.sec_effect1, r.sec_effect2, r.sec_effect3>>,
   is_deep |-> is_deep_relic(id),
   name |-> info_name(id),
   tier |-> relic_tier(effect_count([effects |-> <<r.effect_1, r.effect_2, r.effect_3>>]))]

\* (real_id, effect_1, effect_2, effect_3, curse_1, curse_2, curse_3)
fingerprint(o) == <<o.real_id>> \o o.effects \o o.curses

\* one iteration of the loop of _build: st = [relics, seen_unique_ids]
build_step(st, r, id) ==
  IF is_unique_relic(id) /\ id \in st.seen_unique_ids THEN st
  ELSE IF info_color(id) = "None"
    THEN [relics |-> st.relics,
          seen_unique_ids |-> st.seen_unique_ids \cup (IF is_unique_relic(id) THEN {id} ELSE {})]
  ELSE [relics |-> Append(st.relics, OwnedRelic(r, id)),
        seen_unique_ids |-> st.seen_unique_ids \cup (IF is_unique_relic(id) THEN {id} ELSE {})]

RECURSIVE build_loop(_, _)
build_loop(st, ga_relics) ==
  IF ga_relics = <<>> THEN st
  ELSE build_loop(build_step(st, ga_relics[1], real_id_of(ga_relics[1].item_id)), Tail(ga_relics))

\* RelicInventory(ga_relics, items_json, data_source).relics
inventory_build(ga_relics) == build_loop([relics |-> <<>>, seen_unique_ids |-> {}], ga_relics).relics

\* RelicInventory(raw_relics, items_json, ds) on the output of parse_relics
BuildInventory ==
  /\ pc = "parsed"
  /\ owned' = inventory_build(relics)
  /\ pc' = "inventory"
  /\ UNCHANGED <<data, entry_table, offset, items, relics, end_offset, first_run, decrypting, request, stored, scoring,
                 optimizer>>

\* RelicInventory.from_owned_relics(relics): instance.relics = list(relics)
FromOwnedRelics ==
  /\ pc = "request"
  /\ owned' = request
  /\ pc' = "inventory"
  /\ UNCHANGED <<data, entry_table, offset, items, relics, end_offset, first_run, decrypting, request, stored, scoring,
                 optimizer>>

\* Blobs: a header of START_OFFSET bytes, then the records of Layer 1.
RELIC_A == ITEM_TYPE_RELIC + 1

RELIC_B == ITEM_TYPE_RELIC + 2

RELIC_C == ITEM_TYPE_RELIC + 5

RELIC_D == ITEM_TYPE_RELIC + 6

RELIC_E == ITEM_TYPE_RELIC + 7

RELIC_F == ITEM_TYPE_RELIC + 8

WEAPON_A == ITEM_TYPE_WEAPON + 3

ARMOR_A == ITEM_TYPE_ARMOR + 4

Zeros(n) == [k \in 1..n |-> 0]

relic_record(h, item_id, effs, curses) ==
  <<h, item_id, 100, 0>> \o effs \o Zeros(7) \o curses \o <<0, 0, 0>>

Records ==
  { <<0, 0>>,
    <<WEAPON_A, 11>> \o Zeros(20),
    <<ARMOR_A, 12>> \o Zeros(2),
    relic_record(RELIC_A, 101, <<HP_RESTORE_BASE, EMPTY_EFFECT, EMPTY_EFFECT>>,
                 <<EMPTY_EFFECT, EMPTY_EFFECT, EMPTY_EFFECT>>),
    relic_record(RELIC_B, 102, <<IMBUE_MAGIC, PHYSICAL_ATK_1, EMPTY_EFFECT>>,
                 <<TAKING_ATTACKS, EMPTY_EFFECT, EMPTY_EFFECT>>) }

\* More relic records: RELIC_C has the item and the effects of RELIC_A under another
\* handle; RELIC_D and RELIC_E hold the same unique item with different effects;
\* the item of RELIC_F has no colour.
InventoryRecords ==
  { relic_record(RELIC_C, 101, <<HP_RESTORE_BASE, EMPTY_EFFECT, EMPTY_EFFECT>>,
                 <<EMPTY_EFFECT, EMPTY_EFFECT, EMPTY_EFFECT>>),
    relic_record(RELIC_D, item_id_of(1000), <<IMBUE_FIRE, EMPTY_EFFECT, EMPTY_EFFECT>>,
                 <<EMPTY_EFFECT, EMPTY_EFFECT, EMPTY_EFFECT>>),
    relic_record(RELIC_E, item_id_of(1000), <<PHYSICAL_ATK_1, IMBUE_FIRE, EMPTY_EFFECT>>,
                 <<EMPTY_EFFECT, EMPTY_EFFECT, EMPTY_EFFECT>>),
    relic_record(RELIC_F, item_id_of(1001), <<IMBUE_MAGIC, EMPTY_EFFECT, EMPTY_EFFECT>>,
                 <<EMPTY_EFFECT, EMPTY_EFFECT, EMPTY_EFFECT>>) }

RECURSIVE Flatten(_)
Flatten(ss) == IF ss = <<>> THEN <<>> ELSE ss[1] \o Flatten(Tail(ss))

\* words dropped from the end of the blob
Cuts == {0, 1, 4, 7, 14, 17, 19}

Layer1s == {Zeros(START_OFFSET \div 4) \o Flatten(rs) : rs \in [1..SLOT_COUNT -> Records]}

\* complete blobs that hold at least one of the further relic records
InventoryLayer1s ==
  {Zeros(START_OFFSET \div 4) \o Flatten(rs) :
     rs \in {f \in [1..SLOT_COUNT -> Records \cup InventoryRecords] :
               \E k \in 1..SLOT_COUNT : f[k] \in InventoryRecords}}

Blobs == {SubSeq(w, 1, Len(w) - c) : w \in Layer1s, c \in Cuts} \cup InventoryLayer1s

EntryTables == {<<>>, <<RELIC_A>>, <<RELIC_B, 0>>, <<RELIC_A, 0, RELIC_B>>, <<RELIC_C, RELIC_A>>}

\* no optimizer run
OptimizerIdle ==
  /\ build = Build(NoTiers, NoTiers, FALSE, 1, <<>>) /\ inventory = <<>> /\ vessels = <<>>
  /\ top_n = 0 /\ max_per_vessel = 0 /\ time_budget = -1
  /\ vi = 1
  /\ slot_owner = <<>> /\ pinned_map = <<>> /\ free_slot_indices = <<>>
  /\ candidates_per_free_slot = <<>>
  /\ stack = <<>> /\ call = NoCall /\ current = <<>> /\ used = {}
  /\ v_eff = {} /\ v_excl = {} /\ v_no_stack_excl = {} /\ v_no_stack_compat = {}
  /\ curse_counts = <<>> /\ top = <<>> /\ seen = {} /\ min_threshold = -1 /\ time_left = -1
  /\ raw = <<>> /\ ri = 1 /\ loop = EmptyLoopState
  /\ all_results = <<>> /\ output = <<>>

\* an OwnedRelic of a request
RequestRelic(h, id, e1, e2) ==
  OwnedRelic([ga_handle |-> h, item_id |-> item_id_of(id), effect_1 |-> e1, effect_2 |-> e2,
              effect_3 |-> EMPTY_EFFECT, sec_effect1 |-> EMPTY_EFFECT,
              sec_effect2 |-> EMPTY_EFFECT, sec_effect3 |-> EMPTY_EFFECT], id)

RequestRelics ==
  {RequestRelic(RELIC_D, 1000, IMBUE_FIRE, EMPTY_EFFECT),
   RequestRelic(RELIC_E, 1000, PHYSICAL_ATK_1, IMBUE_FIRE),
   RequestRelic(RELIC_A, 101, HP_RESTORE_BASE, EMPTY_EFFECT)}

MaxRequest == 2

\* the relic lists of inline requests
Requests == UNION {[1..n -> RequestRelics] : n \in 0..MaxRequest}

\* an upload: parse_relics(data), then RelicInventory(raw_relics, items_json, ds)
UploadInit ==
  /\ data \in Blobs
  /\ entry_table \in EntryTables
  /\ offset = START_OFFSET /\ items = <<>> /\ relics = <<>> /\ end_offset = 0
  /\ pc = "parse_items"
  /\ ExtraIdle
  /\ OptimizerIdle

\* an inline optimize request: RelicInventory.from_owned_relics(request.relics)
RequestInit ==
  /\ request \in Requests
  /\ owned = <<>>
  /\ StoredIdle /\ ScoringIdle /\ RestIdle
  /\ data = <<>> /\ entry_table = <<>> /\ offset = 0 /\ items = <<>> /\ relics = <<>>
  /\ end_offset = 0
  /\ pc = "request"
  /\ OptimizerIdle

ParseInit == UploadInit \/ RequestInit

ParseNext == ParseItem \/ ParseRelics \/ BuildInventory \/ FromOwnedRelics

ParseSpec == ParseInit /\ [][ParseNext]_vars

(***************************************************************************)
(* Re-upload of a save: _compute_handle_remap and the rewrite of            *)
(* pinned_relics in upload_save.                                            *)
(***************************************************************************)

\* the ga_handles of the rows with the fingerprint, in encounter order
handles_with(rows, fp) ==
  [k \in 1..Len(SelectSeq(rows, LAMBDA r : fingerprint(r) = fp)) |->
     SelectSeq(rows, LAMBDA r : fingerprint(r) = fp)[k].ga_handle]

\* the rows at which a fingerprint occurs first
first_rows(rows) ==
  SelectSeq([i \in 1..Len(rows) |-> i],
            LAMBDA i : \A j \in 1..(i - 1) : fingerprint(rows[j]) # fingerprint(rows[i]))

\* the keys of old_fp in insertion order
fp_keys(rows) == [k \in 1..Len(first_rows(rows)) |-> fingerprint(rows[first_rows(rows)[k]])]

Shorter(a, b) == IF Len(a) <= Len(b) THEN Len(a) ELSE Len(b)

\* for old_h, new_h in zip(old_handles, new_handles): remap[old_h] = new_h
zip_assigned(remap, old_handles, new_handles) ==
  [h \in DOMAIN remap \cup {old_handles[k] : k \in 1..Shorter(old_handles, new_handles)} |->
     IF \E k \in 1..Shorter(old_handles, new_handles) : old_handles[k] = h
     THEN new_handles[CHOOSE k \in 1..Shorter(old_handles, new_handles) :
                        /\ old_handles[k] = h
                        /\ \A j \in (k + 1)..Shorter(old_handles, new_handles) : old_handles[j] # h]
     ELSE remap[h]]

RECURSIVE remap_loop(_, _, _, _)
remap_loop(remap, keys, old, new) ==
  IF keys = <<>> THEN remap
  ELSE remap_loop(zip_assigned(remap, handles_with(old, keys[1]), handles_with(new, keys[1])),
                  Tail(keys), old, new)

\* the relics of all characters, in the order of the loops over new_characters
all_relics(chars) == Flatten(chars)

\* _compute_handle_remap(old_relics, new_characters)
compute_handle_remap(old, chars) == remap_loop(<<>>, fp_keys(old), old, all_relics(chars))

\* the pinned list with the handles outside the map kept as they are
new_pinned_keeping(pinned, remap) ==
  [k \in 1..Len(pinned) |-> IF pinned[k] \in DOMAIN remap THEN remap[pinned[k]] ELSE pinned[k]]

\* [handle_remap[h] for h in build.pinned_relics if h in handle_remap]
new_pinned(pinned, remap) ==
  [k \in 1..Len(SelectSeq(pinned, LAMBDA h : h \in DOMAIN remap)) |->
     remap[SelectSeq(pinned, LAMBDA h : h \in DOMAIN remap)[k]]]

\* the loop over db_builds
builds_remapped(bs, old, remap) ==
  [k \in 1..Len(bs) |->
     IF old = <<>> \/ bs[k] = <<>> THEN bs[k] ELSE new_pinned(bs[k], remap)]

\* Stored relics and uploaded saves: rows of two kinds of relic; a save numbers its
\* handles from its own base.
RelicKinds == <<[real_id |-> 101, effect |-> HP_RESTORE_BASE], [real_id |-> 102, effect |-> IMBUE_MAGIC]>>

MaxSave == 3

KindLists == UNION {[1..n -> 1..Len(RelicKinds)] : n \in 0..MaxSave}

rows_of(kinds, base) ==
  [k \in 1..Len(kinds) |->
     RequestRelic(ITEM_TYPE_RELIC + base + k, RelicKinds[kinds[k]].real_id,
                  RelicKinds[kinds[k]].effect, EMPTY_EFFECT)]

\* the relics of a save as one character or as two
characters_of(rows, n) ==
  IF n = 1 \/ rows = <<>> THEN <<rows>> ELSE <<SubSeq(rows, 1, 1), SubSeq(rows, 2, Len(rows))>>

NewSaves == {characters_of(rows_of(kinds, base), n) : kinds \in KindLists, base \in {0, 1}, n \in {1, 2}}

PinnedHandles == {ITEM_TYPE_RELIC + k : k \in 1..(MaxSave + 1)}

PinLists ==
  {<<>>} \cup {<<h>> : h \in PinnedHandles}
    \cup {q \in PinnedHandles \X PinnedHandles : q[1] # q[2]}

\* a user with stored relics and two builds
StoredInit ==
  /\ old_relics \in {rows_of(kinds, 0) : kinds \in KindLists}
  /\ builds \in {<<p, q>> : p \in PinLists, q \in {<<>>, <<RELIC_B>>}}
  /\ new_characters = <<>> /\ handle_remap = <<>>
  /\ prev = [relics |-> <<>>, builds |-> <<>>]
  /\ pc = "stored"
  /\ data = <<>> /\ entry_table = <<>> /\ offset = 0 /\ items = <<>> /\ relics = <<>>
  /\ end_offset = 0
  /\ ConstructedIdle /\ ScoringIdle /\ RestIdle
  /\ OptimizerIdle

\* upload_save of an authenticated user: remap the pins, then replace the stored relics
UploadSave ==
  /\ pc = "stored"
  /\ \E chars \in NewSaves :
       /\ new_characters' = chars
       /\ handle_remap' = compute_handle_remap(old_relics, chars)
       /\ builds' = builds_remapped(builds, old_relics, compute_handle_remap(old_relics, chars))
       /\ old_relics' = all_relics(chars)
  /\ prev' = [relics |-> old_relics, builds |-> builds]
  /\ pc' = "uploaded"
  /\ UNCHANGED <<data, entry_table, offset, items, relics, end_offset, first_run, decrypting, constructed, scoring, optimizer>>

UploadSpec == StoredInit /\ [][UploadSave]_vars

(***************************************************************************)
(* decrypt_sl2: the BND4 container of a PC save.                            *)
(***************************************************************************)

BND4_HEADER_LEN == 64
BND4_ENTRY_HEADER_LEN == 32
IV_SIZE == 16
MAX_ENTRY_SIZE == 1000000000

\* Largest number of entry headers of a file.
MaxEntries == 3

\* An entry header as decrypt_sl2 reads it: whether bytes 0..7 are the expected
\* magic, size (bytes 8..11), data_offset (bytes 16..19), and whether writing the
\* decrypted blob fails.
EntryHeader(magic, size, data_offset, io_error) ==
  [magic |-> magic, size |-> size, data_offset |-> data_offset, io_error |-> io_error]

EntryHeaders ==
  { EntryHeader(TRUE, 32, 160, FALSE), EntryHeader(FALSE, 32, 160, FALSE),
    EntryHeader(TRUE, 0, 160, FALSE), EntryHeader(TRUE, MAX_ENTRY_SIZE + 1, 160, FALSE),
    EntryHeader(TRUE, 24, 160, FALSE), EntryHeader(TRUE, 8, 160, FALSE),
    EntryHeader(TRUE, 32, 0, FALSE), EntryHeader(TRUE, 32, 176, FALSE),
    EntryHeader(TRUE, 32, 160, TRUE) }

\* the entry headers that lie completely inside a file of the length
headers_inside(len) ==
  IF len < BND4_HEADER_LEN THEN 0 ELSE (len - BND4_HEADER_LEN) \div BND4_ENTRY_HEADER_LEN

Smaller(a, b) == IF a <= b THEN a ELSE b

RECURSIVE SeqsOf(_, _)
SeqsOf(S, n) == IF n = 0 THEN {<<>>} ELSE {Append(q, x) : q \in SeqsOf(S, n - 1), x \in S}

\* A file: its length, whether its first four bytes are BND4, the entry count of
\* bytes 12..15 and the entry headers it holds.
Sl2File(len, bnd4, num_entries, headers) ==
  [len |-> len, bnd4 |-> bnd4, num_entries |-> num_entries, headers |-> headers]

Sl2Files ==
  { Sl2File(len, FALSE, 0, <<>>) : len \in {2, 10, 192} }
  \cup { Sl2File(10, TRUE, 0, <<>>) }
  \cup UNION { { Sl2File(len, TRUE, n, hs) : hs \in SeqsOf(EntryHeaders, Smaller(n, headers_inside(len))) } :
                 len \in {16, 128, 192}, n \in 0..MaxEntries }
  \cup { Sl2File(192, TRUE, -1, <<>>) }

\* Cipher(AES, CBC(iv)) with finalize(): the IV has 16 bytes and the payload is a
\* whole number of blocks
decrypts(size) == size >= IV_SIZE /\ (size - IV_SIZE) % IV_SIZE = 0

\* BND4Entry.decrypt: the file written, named after the index of the entry
blob(index, size) == [name |-> <<"USERDATA_", index>>, length |-> size - IV_SIZE]

\* the tests of the loop without the test of the end of the data
entry_accepted_unbounded(file, h) ==
  /\ h.magic
  /\ ~(h.size <= 0 \/ h.size > MAX_ENTRY_SIZE)
  /\ ~(h.data_offset <= 0)

\* the entry passes the tests of the loop and is handed to BND4Entry
entry_accepted(file, h) ==
  /\ h.magic
  /\ ~(h.size <= 0 \/ h.size > MAX_ENTRY_SIZE)
  /\ ~(h.data_offset <= 0 \/ h.data_offset + h.size > file.len)

\* BND4Entry(...).decrypt() ends without an exception
entry_decrypted(h) == decrypts(h.size) /\ ~h.io_error

DecryptInit ==
  /\ sl2 \in Sl2Files
  /\ entry_index = 0 /\ written = <<>> /\ outcome = ""
  /\ pc = "decrypt_sl2"
  /\ data = <<>> /\ entry_table = <<>> /\ offset = 0 /\ items = <<>> /\ relics = <<>>
  /\ end_offset = 0
  /\ ConstructedIdle /\ StoredIdle /\ ScoringIdle /\ first_run = <<>>
  /\ OptimizerIdle

\* raw[:4] != b'BND4', then struct.unpack("<i", raw[12:16])
ReadHeader ==
  /\ pc = "decrypt_sl2"
  /\ IF ~sl2.bnd4 THEN pc' = "raised" /\ outcome' = "ValueError"
     ELSE IF sl2.len < 16 THEN pc' = "raised" /\ outcome' = "struct.error"
     ELSE pc' = "entries" /\ outcome' = ""
  /\ UNCHANGED <<data, entry_table, offset, items, relics, end_offset, first_run, constructed, stored, scoring, sl2, entry_index, written, optimizer>>

\* one iteration of the loop over range(num_entries)
ReadEntry ==
  /\ pc = "entries" /\ entry_index < sl2.num_entries
  /\ BND4_HEADER_LEN + BND4_ENTRY_HEADER_LEN * (entry_index + 1) <= sl2.len
  /\ written' = IF entry_accepted(sl2, sl2.headers[entry_index + 1])
                     /\ entry_decrypted(sl2.headers[entry_index + 1])
                THEN Append(written, blob(entry_index, sl2.headers[entry_index + 1].size))
                ELSE written
  /\ entry_index' = entry_index + 1
  /\ UNCHANGED <<data, entry_table, offset, items, relics, end_offset, first_run, constructed, stored, scoring, sl2, outcome, pc, optimizer>>

\* the loop ends, by exhaustion or by the break on a header outside the file
Return ==
  /\ pc = "entries"
  /\ \/ entry_index >= sl2.num_entries
     \/ BND4_HEADER_LEN + BND4_ENTRY_HEADER_LEN * (entry_index + 1) > sl2.len
  /\ pc' = "returned" /\ outcome' = "returned"
  /\ UNCHANGED <<data, entry_table, offset, items, relics, end_offset, first_run, constructed, stored, scoring, sl2, entry_index, written, optimizer>>

DecryptNext == ReadHeader \/ ReadEntry \/ Return

DecryptSpec == DecryptInit /\ [][DecryptNext]_vars


(***************************************************************************)
(* A BuildScorer kept across calls: its lazily built name cache, the build  *)
(* it is called with, and the resolver queries.                             *)
(***************************************************************************)

\* the effect reaches the name step of _resolve_tier_and_weight
reaches_name_step(b, eff_id) ==
  /\ eff_id \notin {EMPTY_EFFECT, 0}
  /\ tier_by_text(b, eff_id, get_effect_text_id(eff_id), get_tier_for_effect(b, eff_id)) = NoTier

\* some effect or curse of the relic makes the call read _get_name_cache(build)
reads_name_cache(relic, b) ==
  \E i \in 1..Len(relic.effects \o relic.curses) :
     reaches_name_step(b, (relic.effects \o relic.curses)[i])

\* _get_name_cache: the kept cache when _name_cache_tiers is build.tiers, else a
\* cache built from build.tiers
get_name_cache(b, object, cached_object, cache) ==
  IF cached_object = object THEN cache ELSE b.tiers

\* a dict object that is neither build.tiers nor the one the scorer still refers to
new_object(object, cached_object) == Least((1..3) \ {object, cached_object})

ScoredTiers ==
  { NoTiers,
    [NoTiers EXCEPT !["required"] = {TAKING_ATTACKS}],
    [NoTiers EXCEPT !["preferred"] = {TAKING_ATTACKS}],
    [NoTiers EXCEPT !["required"] = {HP_RESTORE_BASE}] }

ScoredWeights == {NoWeights, [t \in {"required"} |-> 200]}

ScoredBuilds ==
  {[Build(t, NoTiers, TRUE, 1, <<>>) EXCEPT !.tier_weights = w] :
     t \in ScoredTiers, w \in ScoredWeights}

ScoredRelics == {Catalogue[5], Catalogue[7]}

ScoredVessels ==
  {VesselSets({}, {}, {}, {}), VesselSets({TAKING_ATTACKS}, {}, {}, {100})}

QueriedEffects == {TAKING_ATTACKS, TAKING_ATTACKS_ALIAS, UNKNOWN_EFFECT, EMPTY_EFFECT, 0, -1}

Call(op, relic, b, vs, score) ==
  [op |-> op, relic |-> relic, build |-> b, vessel |-> vs, score |-> score]

ScoringInit ==
  /\ scored_build \in ScoredBuilds
  /\ tiers_object = 1
  /\ name_cache_tiers = 0 /\ name_cache = <<>>
  /\ returned = <<>> /\ queried = <<>>
  /\ pc = "scorer"
  /\ data = <<>> /\ entry_table = <<>> /\ offset = 0 /\ items = <<>> /\ relics = <<>>
  /\ end_offset = 0
  /\ ConstructedIdle /\ StoredIdle /\ RestIdle
  /\ OptimizerIdle

\* what a call that resolves the effects of the relic leaves in the scorer
CacheAfter(relic) ==
  IF reads_name_cache(relic, scored_build)
  THEN /\ name_cache' = get_name_cache(scored_build, tiers_object, name_cache_tiers, name_cache)
       /\ name_cache_tiers' = tiers_object
  ELSE UNCHANGED <<name_cache, name_cache_tiers>>

\* scorer.score_relic(relic, build)
ScoreRelic(relic) ==
  /\ pc = "scorer"
  /\ returned' = Call("score_relic", relic, scored_build, <<>>,
                 score_relic_by(relic, scored_build,
                   get_name_cache(scored_build, tiers_object, name_cache_tiers, name_cache)))
  /\ CacheAfter(relic)
  /\ UNCHANGED <<data, entry_table, offset, items, relics, end_offset, first_run, decrypting, constructed, stored, scored_build, tiers_object, queried, pc, optimizer>>

\* scorer.score_relic_in_context(relic, build, ...) with no curse counts
ScoreRelicInContext(relic, vs) ==
  /\ pc = "scorer"
  /\ returned' = Call("score_relic_in_context", relic, scored_build, vs,
                 score_relic_in_context_by(relic, scored_build, vs, <<>>,
                   get_name_cache(scored_build, tiers_object, name_cache_tiers, name_cache)))
  /\ CacheAfter(relic)
  /\ UNCHANGED <<data, entry_table, offset, items, relics, end_offset, first_run, decrypting, constructed, stored, scored_build, tiers_object, queried, pc, optimizer>>

\* _save_current_build: build.tiers[tier_key] = effect_ids, on the same dict
SetTier(tier_key, effect_ids) ==
  /\ pc = "scorer"
  /\ scored_build' = [scored_build EXCEPT !.tiers[tier_key] = effect_ids]
  /\ scored_build'.tiers \in ScoredTiers
  /\ UNCHANGED <<data, entry_table, offset, items, relics, end_offset, first_run, decrypting, constructed, stored, tiers_object, name_cache_tiers, name_cache, returned, queried, pc, optimizer>>

\* _get_current_build: another build, with a tiers dict of its own
SelectBuild(b) ==
  /\ pc = "scorer"
  /\ scored_build' = b
  /\ tiers_object' = new_object(tiers_object, name_cache_tiers)
  /\ UNCHANGED <<data, entry_table, offset, items, relics, end_offset, first_run, decrypting, constructed, stored, name_cache_tiers, name_cache, returned, queried, pc, optimizer>>

\* the resolver asked about one effect identifier
Query(effect_id) ==
  /\ pc = "scorer"
  /\ queried' = [effect_id |-> effect_id, name |-> get_effect_name(effect_id),
                 stacking_type |-> get_effect_stacking_type(effect_id),
                 conflict_id |-> get_effect_conflict_id(effect_id)]
  /\ UNCHANGED <<data, entry_table, offset, items, relics, end_offset, first_run, decrypting, constructed, stored, scored_build, tiers_object, name_cache_tiers, name_cache, returned, pc, optimizer>>

ScoringNext ==
  \/ \E relic \in ScoredRelics : ScoreRelic(relic)
  \/ \E relic \in ScoredRelics : \E vs \in ScoredVessels : ScoreRelicInContext(relic, vs)
  \/ \E tier_key \in {"required", "preferred"} :
       \E effect_ids \in {{}, {TAKING_ATTACKS}} : SetTier(tier_key, effect_ids)
  \/ \E b \in ScoredBuilds : SelectBuild(b)
  \/ \E effect_id \in QueriedEffects : Query(effect_id)

ScoreSpec == ScoringInit /\ [][ScoringNext]_vars


(***************************************************************************)
(* Properties of the results.                                               *)
(***************************************************************************)

\* The results built so far, of every vessel, and the last of them.
Results == {all_results[k] : k \in 1..Len(all_results)}

LastResult == all_results[Len(all_results)]

\* The last result has just been built: loop still holds the slot loop's outcome,
\* from before the direction correction.
JustBuilt == pc = "build" /\ ri > 1 /\ all_results # <<>>

slot_score_sum(r) == SumSeq([i \in 1..Len(r.assignments) |-> r.assignments[i].score])

Entries(r) ==
  UNION {{r.assignments[i].breakdown[j] : j \in 1..Len(r.assignments[i].breakdown)} :
           i \in 1..Len(r.assignments)}

LoopEntries ==
  UNION {{loop.slot_results[i].breakdown[j] : j \in 1..Len(loop.slot_results[i].breakdown)} :
           i \in 1..Len(loop.slot_results)}

\* C1: in every VesselResult, corrected by the tier-family direction fix or not,
\* total_score is the sum of the scores of its slot assignments.
C1_TotalEqualsSum ==
  /\ \A r \in Results : r.total_score = slot_score_sum(r)
  /\ \A k \in 1..Len(output) : output[k].total_score = slot_score_sum(output[k])

\* a result whose total the direction correction changed
C1_Witness ==
  /\ JustBuilt
  /\ LastResult.total_score # loop.total_score
  /\ LastResult.total_score > 0
  /\ slot_score_sum(LastResult) = LastResult.total_score

\* C2: every breakdown entry with redundant = TRUE has score 0, in what get_breakdown
\* emitted (the slot loop's outcome) and in the results after the direction correction.
C2_RedundantImpliesZero ==
  /\ \A e \in LoopEntries : e.redundant => e.score = 0
  /\ \A r \in Results : \A e \in Entries(r) : e.redundant => e.score = 0

\* a result with an entry get_breakdown emitted as redundant and an entry that
\* the correction made redundant
C2_Witness ==
  /\ JustBuilt
  /\ \E i \in 1..Len(loop.slot_results) : \E j \in 1..Len(loop.slot_results[i].breakdown) :
       /\ ~loop.slot_results[i].breakdown[j].redundant
       /\ LastResult.assignments[i].breakdown[j].redundant
       /\ LastResult.assignments[i].breakdown[j].score = 0
  /\ \E e \in LoopEntries : e.redundant /\ e.score = 0

\* C3: every relic returned by parse_relics has its handle in the Layer-2 active-handle
\* set of the same blob; a relic record present only in Layer 1 is never returned.
C3_NoPhantoms ==
  pc = "parsed" =>
    \A k \in 1..Len(relics) : relics[k].ga_handle \in parse_active_handles(entry_table)

\* parse_relics returns exactly the relic records of Layer 1, in encounter order
C3_ReturnsLayer1Relics ==
  pc = "parsed" =>
    /\ Len(relics) = Cardinality({k \in 1..Len(items) : is_relic_item(items[k])})
    /\ \A k \in 1..Len(relics) : \E j \in 1..Len(items) :
         relics[k].ga_handle = items[j].gaitem_handle /\ relics[k].offset = items[j].offset

\* a returned relic whose handle Layer 2 does not list, next to one it lists
C3_PhantomReturned ==
  /\ pc = "parsed"
  /\ \E k \in 1..Len(relics) : relics[k].ga_handle \notin parse_active_handles(entry_table)
  /\ \E k \in 1..Len(relics) : relics[k].ga_handle \in parse_active_handles(entry_table)

\* The pinned handles that belong to a relic of the inventory.
PresentPins == Range(build.pinned_relics) \cap {inventory[k].ga_handle : k \in 1..Len(inventory)}

AssignedHandles(r) ==
  {r.assignments[i].relic.ga_handle :
     i \in {j \in 1..Len(r.assignments) : r.assignments[j].relic # NoRelic}}

ResultsOf(v) == {r \in Results : r.vessel_id = v}

\* C4: every result of optimize holds every pinned handle that belongs to an inventory
\* relic; a vessel in which such a relic found no free compatible slot has no result.
C4_PinsSatisfied ==
  /\ \A r \in Results : PresentPins \subseteq AssignedHandles(r)
  /\ \A v \in 1..Len(vessels) :
       ~pre_assign_pinned(build, inventory, vessels[v], num_slots).ok => ResultsOf(v) = {}

\* a run whose first vessel has no slot for a pinned relic and yields nothing, and
\* whose second vessel yields results holding the pins
C4_Witness ==
  /\ pc = "done"
  /\ PresentPins # {}
  /\ ~pre_assign_pinned(build, inventory, vessels[1], num_slots).ok
  /\ ResultsOf(1) = {}
  /\ \E r \in ResultsOf(2) : PresentPins \subseteq AssignedHandles(r)

AssignedRelics(r) ==
  {r.assignments[i].relic : i \in {j \in 1..Len(r.assignments) : r.assignments[j].relic # NoRelic}}

\* C5: no relic for which has_blacklisted_effect holds is assigned to a slot of a
\* result, whatever the build and its pinned_relics.
C5_NoBlacklistedAssigned ==
  \A r \in Results : \A relic \in AssignedRelics(r) : ~has_blacklisted_effect(relic, build)

\* What the code keeps: a blacklisted relic in a result is a pinned one.
C5_OnlyPinnedBlacklisted ==
  \A r \in Results : \A relic \in AssignedRelics(r) :
    has_blacklisted_effect(relic, build) => relic.ga_handle \in PresentPins

\* a result that holds a pinned relic carrying a blacklisted effect
C5_PinnedBlacklistedAssigned ==
  \E r \in Results : \E relic \in AssignedRelics(r) :
    /\ has_blacklisted_effect(relic, build)
    /\ relic.ga_handle \in PresentPins

FilledSlots(r) == {i \in 1..Len(r.assignments) : r.assignments[i].relic # NoRelic}

slot_fits(a) ==
  /\ a.slot_color = "White" \/ a.relic.color = a.slot_color
  /\ a.relic.is_deep = a.is_deep

\* C6: every assigned relic, pinned or chosen by the solver, has the colour of its slot
\* unless the slot is White, and is deep exactly when its slot is a deep slot
\* (slot index >= 3 counted from 0).
C6_SlotCompatible ==
  \A r \in Results : \A i \in 1..Len(r.assignments) :
    /\ r.assignments[i].slot_index = i
    /\ r.assignments[i].slot_color = vessels[r.vessel_id][i]
    /\ r.assignments[i].is_deep = (i - 1 >= 3)
    /\ i \in FilledSlots(r) => slot_fits(r.assignments[i])

\* a result with a pinned relic and a solver-chosen relic, a deep relic in a deep slot
\* and a coloured relic in a White slot
C6_Witness ==
  \E r \in Results :
    /\ \E i \in FilledSlots(r) : r.assignments[i].relic.ga_handle \in PresentPins
    /\ \E i \in FilledSlots(r) : r.assignments[i].relic.ga_handle \notin PresentPins
    /\ \E i \in FilledSlots(r) : r.assignments[i].is_deep /\ r.assignments[i].relic.is_deep
    /\ \E i \in FilledSlots(r) :
         r.assignments[i].slot_color = "White" /\ r.assignments[i].relic.color # "White"
    /\ \A i \in FilledSlots(r) : slot_fits(r.assignments[i])

\* C7: the list optimize_all_vessels returns has at most top_n entries, no entry that
\* misses requirements precedes one that meets them, and entries with the same
\* meets_requirements value are in non-increasing order of total_score.
C7_Ranked ==
  pc = "done" =>
    /\ Len(output) <= top_n
    /\ \A i \in 1..Len(output) : \A j \in (i + 1)..Len(output) :
         /\ ~(~output[i].meets_requirements /\ output[j].meets_requirements)
         /\ output[i].meets_requirements = output[j].meets_requirements
              => output[i].total_score >= output[j].total_score

\* a truncated list with a result that meets the requirements ahead of a result
\* that misses them and has the higher score
C7_Witness ==
  /\ pc = "done"
  /\ Len(output) = top_n
  /\ Len(all_results) > top_n
  /\ \E i \in 1..Len(output) : \E j \in (i + 1)..Len(output) :
       /\ output[i].meets_requirements /\ ~output[j].meets_requirements
       /\ output[i].total_score < output[j].total_score

\* The effects and curses of the relics a result assigns.
AssignedEffects(r) ==
  UNION {{all_effects(relic)[k] : k \in 1..Len(all_effects(relic))} : relic \in AssignedRelics(r)}

\* a required identifier matches an assigned effect: the same identifier, the effect's
\* text identifier, or the same display name
effect_matches(req, eff) ==
  \/ req = eff
  \/ get_effect_text_id(eff) # -1 /\ req = get_effect_text_id(eff)
  \/ get_effect_name(req).text \notin {"", "Empty"} /\ get_effect_name(req) = get_effect_name(eff)

requirements_matched(r) ==
  /\ \A req \in build.tiers["required"] : \E eff \in AssignedEffects(r) : effect_matches(req, eff)
  /\ \A f \in build.family_tiers["required"] : AssignedEffects(r) \cap get_family_effect_ids(f) # {}

nothing_missing(r) == r.missing_requirements.ids = {} /\ r.missing_requirements.families = {}

\* C8: meets_requirements is true exactly when missing_requirements is empty, and that
\* exactly when every required identifier matches an assigned effect and every required
\* family has an assigned member.
C8_MeetsIffMatched ==
  \A r \in Results :
    /\ r.meets_requirements <=> nothing_missing(r)
    /\ nothing_missing(r) <=> requirements_matched(r)

\* What the code keeps: the flag and the list agree, and nothing is reported met
\* that is not matched.
C8_MeetsOnlyIfMatched ==
  \A r \in Results :
    /\ r.meets_requirements <=> nothing_missing(r)
    /\ nothing_missing(r) => requirements_matched(r)

\* two required identifiers of one display name, both matched by an assigned effect
\* of that name, one of them reported missing
C8_MatchedButMissing ==
  \E r \in Results :
    /\ requirements_matched(r)
    /\ ~r.meets_requirements
    /\ Cardinality(build.tiers["required"]) = 2
    /\ Cardinality(r.missing_requirements.ids) = 1

\* Tier families in a result: the no_stack base names itself as compatibility
\* identifier, its unique variants name the base.
is_family_base(eff) ==
  get_effect_stacking_type(eff) = "no_stack" /\ get_effect_conflict_id(eff) = eff

is_variant_of(eff, base) ==
  get_effect_stacking_type(eff) = "unique" /\ get_effect_conflict_id(eff) = base /\ eff # base

\* positions <<slot, entry>> of the breakdown entries of a result
Positions(r) ==
  UNION {{<<i, j>> : j \in 1..Len(r.assignments[i].breakdown)} : i \in 1..Len(r.assignments)}

EntryAt(r, q) == r.assignments[q[1]].breakdown[q[2]]

earlier(q1, q2) == q1[1] < q2[1] \/ (q1[1] = q2[1] /\ q1[2] < q2[2])

BasePositions(r) == {q \in Positions(r) : is_family_base(EntryAt(r, q).effect_id)}

VariantPositions(r, base) == {q \in Positions(r) : is_variant_of(EntryAt(r, q).effect_id, base)}

\* the first entry, in slot order, of each distinct variant
FirstVariantPositions(r, base) ==
  {q \in VariantPositions(r, base) :
     \A q2 \in VariantPositions(r, base) :
       EntryAt(r, q2).effect_id = EntryAt(r, q).effect_id => ~earlier(q2, q)}

\* the weight the build gives an effect: its tier's weight, 0 without a tier
full_weight(eff) ==
  IF resolve_tier_and_weight(eff, build)[1] = NoTier THEN 0
  ELSE resolve_tier_and_weight(eff, build)[2]

base_overridden(r, qb) ==
  /\ EntryAt(r, qb).score = 0 /\ EntryAt(r, qb).redundant
  /\ \A qv \in FirstVariantPositions(r, EntryAt(r, qb).effect_id) :
       EntryAt(r, qv).score = full_weight(EntryAt(r, qv).effect_id) /\ ~EntryAt(r, qv).redundant

\* C9: when a no_stack tier-family base and a unique variant of its family are placed
\* in one vessel, the result gives the base score 0 with redundant = TRUE and the
\* variant its full tier weight, whichever of the two is in the earlier slot.
C9_VariantOverridesBase ==
  \A r \in Results : \A qb \in BasePositions(r) :
    VariantPositions(r, EntryAt(r, qb).effect_id) # {} => base_overridden(r, qb)

\* the base in the earlier slot has no tier, the preferred variant behind it
\* is left at score 0 and redundant
C9_VariantLeftBlocked ==
  \E r \in Results : \E qb \in BasePositions(r) :
    \E qv \in FirstVariantPositions(r, EntryAt(r, qb).effect_id) :
      /\ earlier(qb, qv)
      /\ EntryAt(r, qb).tier = NoTier
      /\ EntryAt(r, qv).tier = "preferred"
      /\ EntryAt(r, qv).score = 0 /\ EntryAt(r, qv).redundant

\* the preferred base in the earlier slot keeps its weight next to a variant
\* that has no tier
C9_BaseKeepsWeight ==
  \E r \in Results : \E qb \in BasePositions(r) :
    \E qv \in FirstVariantPositions(r, EntryAt(r, qb).effect_id) :
      /\ earlier(qb, qv)
      /\ EntryAt(r, qb).score > 0 /\ ~EntryAt(r, qb).redundant
      /\ EntryAt(r, qv).tier = NoTier

\* the avoided base in the earlier slot keeps its negative weight
C9_BaseKeepsPenalty ==
  \E r \in Results : \E qb \in BasePositions(r) :
    \E qv \in FirstVariantPositions(r, EntryAt(r, qb).effect_id) :
      /\ earlier(qb, qv)
      /\ EntryAt(r, qb).score < 0 /\ ~EntryAt(r, qb).redundant

\* both preferred: the base at 0 and redundant, the variant at full weight, with the
\* base in the earlier slot
C9_BothPreferredBaseFirst ==
  \E r \in Results : \E qb \in BasePositions(r) :
    \E qv \in FirstVariantPositions(r, EntryAt(r, qb).effect_id) :
      /\ earlier(qb, qv)
      /\ EntryAt(r, qb).tier = "preferred" /\ EntryAt(r, qv).tier = "preferred"
      /\ base_overridden(r, qb)

\* the bases whose unique variants a result holds
VariantBases(r) ==
  {get_effect_conflict_id(EntryAt(r, q).effect_id) :
     q \in {p \in Positions(r) :
              is_variant_of(EntryAt(r, p).effect_id, get_effect_conflict_id(EntryAt(r, p).effect_id))
              /\ is_family_base(get_effect_conflict_id(EntryAt(r, p).effect_id))}}

base_placed(r, base) == base \in AssignedEffects(r)

variants_at_full_weight(r, base) ==
  \A qv \in FirstVariantPositions(r, base) :
    EntryAt(r, qv).score = full_weight(EntryAt(r, qv).effect_id) /\ ~EntryAt(r, qv).redundant

\* C10: when unique variants of one tier family are placed in a vessel and the family's
\* no_stack base is not, every distinct variant scores its own full weight and none
\* is marked redundant, in either placement order.
C10_SiblingVariantsCoexist ==
  \A r \in Results : \A base \in VariantBases(r) :
    ~base_placed(r, base) => variants_at_full_weight(r, base)

\* the two variants in slot order q1, q2, both preferred and both at full weight
siblings_in_order(r, v1, v2) ==
  \E q1 \in Positions(r) : \E q2 \in Positions(r) :
    /\ q1[1] < q2[1]
    /\ EntryAt(r, q1).effect_id = v1 /\ EntryAt(r, q2).effect_id = v2
    /\ EntryAt(r, q1).score > 0 /\ EntryAt(r, q2).score > 0
    /\ EntryAt(r, q1).score = full_weight(v1) /\ EntryAt(r, q2).score = full_weight(v2)
    /\ ~EntryAt(r, q1).redundant /\ ~EntryAt(r, q2).redundant

\* two vessels of one run hold +1 and +2 without the base, in the two slot orders
C10_Witness ==
  /\ \E r \in Results :
       /\ ~base_placed(r, HP_RESTORE_BASE)
       /\ siblings_in_order(r, HP_RESTORE_PLUS1, HP_RESTORE_PLUS2)
  /\ \E r \in Results :
       /\ ~base_placed(r, HP_RESTORE_BASE)
       /\ siblings_in_order(r, HP_RESTORE_PLUS2, HP_RESTORE_PLUS1)

\* no_stack entries of a result whose effect belongs to an exclusivity group and has
\* a scored tier
ExclusivePositions(r) ==
  {q \in Positions(r) :
     /\ get_effect_stacking_type(EntryAt(r, q).effect_id) = "no_stack"
     /\ get_effect_exclusivity_id(EntryAt(r, q).effect_id) # -1
     /\ EntryAt(r, q).tier \in SCORED_TIERS}

\* two different effects of one exclusivity group, in different slots, q1 first
exclusive_pair(r, q1, q2) ==
  /\ q1[1] < q2[1]
  /\ EntryAt(r, q1).effect_id # EntryAt(r, q2).effect_id
  /\ get_effect_exclusivity_id(EntryAt(r, q1).effect_id)
       = get_effect_exclusivity_id(EntryAt(r, q2).effect_id)

\* no member of the entry's exclusivity group is placed in an earlier slot
first_of_group(r, q) ==
  \A p \in ExclusivePositions(r) :
    get_effect_exclusivity_id(EntryAt(r, p).effect_id)
      = get_effect_exclusivity_id(EntryAt(r, q).effect_id) => ~(p[1] < q[1])

Greater(a, b) == IF a >= b THEN a ELSE b

\* C11: when two different no_stack effects of one exclusivity group, both in scored
\* tiers, are placed with two relics of a vessel, the one in the later slot scores 0
\* and is marked redundant, the first of the group in slot order scores its weight,
\* and the two together never score more than one tier weight.
C11_ExclusiveGroupScoresOnce ==
  \A r \in Results : \A q1 \in ExclusivePositions(r) : \A q2 \in ExclusivePositions(r) :
    exclusive_pair(r, q1, q2) =>
      /\ EntryAt(r, q2).score = 0 /\ EntryAt(r, q2).redundant
      /\ first_of_group(r, q1) =>
            /\ EntryAt(r, q1).score = full_weight(EntryAt(r, q1).effect_id)
            /\ ~EntryAt(r, q1).redundant
      /\ EntryAt(r, q1).score + EntryAt(r, q2).score
           <= Greater(full_weight(EntryAt(r, q1).effect_id), full_weight(EntryAt(r, q2).effect_id))

\* both imbues of exclusivity group 100 are placed in a result and both score 50
C11_BothImbuesScore ==
  \E r \in Results : \E q1 \in ExclusivePositions(r) : \E q2 \in ExclusivePositions(r) :
    /\ exclusive_pair(r, q1, q2)
    /\ EntryAt(r, q1).effect_id = IMBUE_MAGIC /\ EntryAt(r, q2).effect_id = IMBUE_FIRE
    /\ EntryAt(r, q1).score = 50 /\ EntryAt(r, q2).score = 50
    /\ r.total_score = 100

\* the compatibility identifier is a group that is not a tier-family base
is_mega_group(compat) == compat # -1 /\ get_effect_conflict_id(compat) # compat

shares_text(a, b) ==
  \/ get_effect_text_id(a) = b \/ get_effect_text_id(b) = a
  \/ (get_effect_text_id(a) # -1 /\ get_effect_text_id(a) = get_effect_text_id(b))

shares_exclusivity(a, b) ==
  get_effect_exclusivity_id(a) # -1 /\ get_effect_exclusivity_id(a) = get_effect_exclusivity_id(b)

\* two different effects whose only common grouping is a mega-group compatibility identifier
mega_mates(a, b) ==
  /\ a # b
  /\ get_effect_conflict_id(a) = get_effect_conflict_id(b)
  /\ is_mega_group(get_effect_conflict_id(a))
  /\ ~shares_text(a, b)
  /\ ~shares_exclusivity(a, b)

\* the effect itself, an effect of its text, or a member of any exclusivity group
may_block(a, b) ==
  a = b \/ shares_text(a, b) \/ get_effect_exclusivity_id(a) # -1

\* an earlier slot holds an entry, not a mega-group mate, that may block the entry
other_cause(r, q) ==
  \E p \in Positions(r) :
    /\ p[1] < q[1]
    /\ ~mega_mates(EntryAt(r, p).effect_id, EntryAt(r, q).effect_id)
    /\ may_block(EntryAt(r, p).effect_id, EntryAt(r, q).effect_id)

\* the entries of a result that have a mega-group mate in the same result
MatedPositions(r) ==
  {q \in Positions(r) :
     \E p \in Positions(r) : mega_mates(EntryAt(r, p).effect_id, EntryAt(r, q).effect_id)}

at_full_weight(r, q) ==
  /\ EntryAt(r, q).score = full_weight(EntryAt(r, q).effect_id)
  /\ ~EntryAt(r, q).redundant

mates_both_score(r, a, b) ==
  \E q1 \in MatedPositions(r) : \E q2 \in MatedPositions(r) :
    /\ q1[1] < q2[1] /\ at_full_weight(r, q1) /\ at_full_weight(r, q2)
    /\ EntryAt(r, q1).effect_id = a /\ EntryAt(r, q2).effect_id = b
    /\ EntryAt(r, q1).score > 0 /\ EntryAt(r, q2).score > 0
    /\ ~other_cause(r, q2)

FromSave == pc = "inventory" /\ data # <<>>

FromRequest == pc = "inventory" /\ data = <<>>

OwnedPairs == {q \in (1..Len(owned)) \X (1..Len(owned)) : q[1] < q[2]}

\* C13: no two relics of an inventory built from the output of parse_relics have the
\* same fingerprint (real_id, effects, curses).
C13_NoFingerprintDuplicates ==
  FromSave => \A q \in OwnedPairs : fingerprint(owned[q[1]]) # fingerprint(owned[q[2]])

\* two relics with one fingerprint and different handles are in the inventory, and
\* Layer 2 lists both handles
C13_ListedDuplicateKept ==
  /\ FromSave
  /\ \E q \in OwnedPairs :
       /\ fingerprint(owned[q[1]]) = fingerprint(owned[q[2]])
       /\ owned[q[1]].ga_handle # owned[q[2]].ga_handle
       /\ {owned[q[1]].ga_handle, owned[q[2]].ga_handle} \subseteq parse_active_handles(entry_table)

\* the position of the first raw relic with the item
first_with_item(item_id) == CHOOSE k \in 1..Len(relics) : relics[k].item_id = item_id /\ \A j \in 1..(k - 1) : relics[j].item_id # item_id

\* C14: in every inventory, however constructed, a real identifier of a unique range
\* (1000-2100, 10000-19999) occurs at most once.
C14_UniqueAtMostOnce ==
  pc = "inventory" =>
    \A q \in OwnedPairs :
      is_unique_relic(owned[q[1]].real_id) => owned[q[1]].real_id # owned[q[2]].real_id

\* from_owned_relics has made an inventory with a unique identifier twice
C14_UniqueTwice ==
  /\ FromRequest
  /\ \E q \in OwnedPairs :
       /\ is_unique_relic(owned[q[1]].real_id)
       /\ owned[q[1]].real_id = owned[q[2]].real_id
       /\ owned[q[1]].ga_handle # owned[q[2]].ga_handle

\* _build keeps a unique identifier once, with the first record in encounter order
C14_BuildKeepsFirst ==
  FromSave =>
    /\ \A q \in OwnedPairs :
         is_unique_relic(owned[q[1]].real_id) => owned[q[1]].real_id # owned[q[2]].real_id
    /\ \A k \in 1..Len(owned) :
         is_unique_relic(owned[k].real_id) =>
           owned[k].ga_handle = relics[first_with_item(owned[k].item_id)].ga_handle

\* _build has dropped the second record of a unique item
C14_BuildDropped ==
  /\ FromSave
  /\ \E k \in 1..Len(owned) : owned[k].ga_handle = RELIC_D
  /\ \E j \in 1..Len(relics) : relics[j].ga_handle = RELIC_E

(***************************************************************************)
(* Properties of the re-upload.                                             *)
(***************************************************************************)

\* a user with stored relics has uploaded a save
Reuploaded == pc = "uploaded" /\ prev.relics # <<>>

NewRelics == all_relics(new_characters)

denotes(h) == \E i \in 1..Len(prev.relics) : prev.relics[i].ga_handle = h

\* the position of the stored relic the handle denoted
old_index(h) == CHOOSE i \in 1..Len(prev.relics) : prev.relics[i].ga_handle = h

old_fingerprint(h) == fingerprint(prev.relics[old_index(h)])

\* the handles of the new relics with the fingerprint of the old handle, in order
new_copies(h) ==
  [k \in 1..Len(SelectSeq(NewRelics, LAMBDA r : fingerprint(r) = old_fingerprint(h))) |->
     SelectSeq(NewRelics, LAMBDA r : fingerprint(r) = old_fingerprint(h))[k].ga_handle]

\* the number of the old handle among the stored copies of its fingerprint
copy_rank(h) ==
  Cardinality({j \in 1..old_index(h) : fingerprint(prev.relics[j]) = old_fingerprint(h)})

still_occurs(h) == denotes(h) /\ Len(new_copies(h)) > 0

has_partner(h) == denotes(h) /\ copy_rank(h) <= Len(new_copies(h))

partner(h) == new_copies(h)[copy_rank(h)]

\* after is the list kept with every handle replaced by a new copy of its
\* fingerprint, the paired copy where the pairing has one
replaced_in_order(after, kept) ==
  /\ Len(after) = Len(kept)
  /\ \A i \in 1..Len(kept) :
       /\ \E k \in 1..Len(new_copies(kept[i])) : after[i] = new_copies(kept[i])[k]
       /\ has_partner(kept[i]) => after[i] = partner(kept[i])

\* C15 as stated: after a re-upload each build's pinned_relics is its previous list
\* with every handle replaced, in order, by the handle of a new relic with the
\* fingerprint of the relic the old handle denoted (copies paired in encounter order),
\* and with the handles whose fingerprint no longer occurs in the new save removed.
C15_PinsFollowFingerprint ==
  Reuploaded =>
    \A b \in 1..Len(builds) :
      replaced_in_order(builds[b], SelectSeq(prev.builds[b], still_occurs))

\* C15 as amended: after a re-upload each build's pinned_relics is its previous list
\* with every handle that the encounter-order pairing of equal fingerprints gives a
\* partner replaced, in order, by the partner's handle, and every other handle removed.
C15_PinsFollowPairing ==
  Reuploaded =>
    \A b \in 1..Len(builds) :
      /\ Len(builds[b]) = Len(SelectSeq(prev.builds[b], has_partner))
      /\ \A i \in 1..Len(builds[b]) :
           builds[b][i] = partner(SelectSeq(prev.builds[b], has_partner)[i])

\* a build pinned two copies of one fingerprint; the first is replaced by another
\* handle, the second is removed although its fingerprint still occurs; the other
\* build's pin is replaced too
C15_Witness ==
  /\ Reuploaded
  /\ \E b \in 1..Len(builds) :
       /\ Len(prev.builds[b]) = 2 /\ Len(builds[b]) = 1
       /\ has_partner(prev.builds[b][1])
       /\ builds[b][1] = partner(prev.builds[b][1])
       /\ builds[b][1] # prev.builds[b][1]
       /\ still_occurs(prev.builds[b][2]) /\ ~has_partner(prev.builds[b][2])
  /\ \E b \in 1..Len(builds) :
       /\ Len(prev.builds[b]) = 1 /\ Len(builds[b]) = 1
       /\ builds[b][1] # prev.builds[b][1]

(***************************************************************************)
(* Properties of the scorer.                                                *)
(***************************************************************************)

\* A call has been made on the scorer.
Scored == pc = "scorer" /\ returned # <<>>

ScoredBy(op) == Scored /\ returned.op = op

\* what a new scorer returns for the inputs of the last call
fresh_score(c) ==
  IF c.op = "score_relic" THEN score_relic(c.relic, c.build)
  ELSE score_relic_in_context(c.relic, c.build, c.vessel, <<>>)

without_weights(b) == [b EXCEPT !.tier_weights = NoWeights]

\* the primary effects of the relic that the build lists under the tier
listed_in(relic, b, tier) == {i \in 1..Len(relic.effects) : relic.effects[i] \in b.tiers[tier]}

overrides(b, tier) ==
  b.tier_weights # NoWeights /\ get_effective_weights(b)[tier] > TIER_WEIGHTS[tier]

\* C16: a relic carrying an effect of the required tier scores strictly more under
\* a build whose tier_weights raises the required weight than under the same build
\* with tier_weights = None.
C16_OverrideRaisesScore ==
  (ScoredBy("score_relic") /\ overrides(returned.build, "required")
     /\ listed_in(returned.relic, returned.build, "required") # {})
  => returned.score > score_relic(returned.relic, without_weights(returned.build))

\* required weight 200, the relic carries the required effect, and the score is
\* the default 100
C16_OverrideIgnored ==
  /\ ScoredBy("score_relic")
  /\ returned.relic = Catalogue[5]
  /\ returned.build.tiers = [NoTiers EXCEPT !["required"] = {TAKING_ATTACKS}]
  /\ get_effective_weights(returned.build)["required"] = 200
  /\ returned.score = 100

\* no primary or curse effect of the relic resolves to a scored tier of the build
unmatched(relic, b) ==
  \A i \in 1..Len(relic.effects \o relic.curses) :
     \/ (relic.effects \o relic.curses)[i] \in {EMPTY_EFFECT, 0}
     \/ resolve_tier_and_weight((relic.effects \o relic.curses)[i], b)[1] \notin SCORED_TIERS

\* C17: score_relic returns 0 for a relic none of whose effects resolves to a
\* scored tier, however many effects it carries.
C17_UnmatchedScoresZero ==
  (ScoredBy("score_relic") /\ unmatched(returned.relic, returned.build)) => returned.score = 0

\* a build with empty tiers and a cache built from them, a relic with three
\* effects: the score is 5
C17_GrandUnmatchedScoresFive ==
  /\ ScoredBy("score_relic")
  /\ name_cache = NoTiers
  /\ returned.build.tiers = NoTiers
  /\ effect_count(returned.relic) = 3
  /\ returned.score = 5

\* C18: a call returns what a scorer without earlier calls returns for the same
\* relic, build contents and vessel state, so two calls with equal inputs return
\* equal scores.
C18_SameInputsSameScore == Scored => returned.score = fresh_score(returned)

\* the cache built for required = {TAKING_ATTACKS} answers for the same dict after
\* the effect was moved to preferred: 105 where a new scorer returns 55
C18_StaleCache ==
  /\ ScoredBy("score_relic")
  /\ returned.relic = Catalogue[7]
  /\ returned.build.tiers = [NoTiers EXCEPT !["preferred"] = {TAKING_ATTACKS}]
  /\ returned.build = scored_build
  /\ name_cache = [NoTiers EXCEPT !["required"] = {TAKING_ATTACKS}]
  /\ returned.score = 105
  /\ fresh_score(returned) = 55

\* the identifier has no row in the effect tables
absent(effect_id) == effect_id \notin DOMAIN effect_params \cup DOMAIN effect_name

Queried == pc = "scorer" /\ queried # <<>>

carries(relic, effect_id) == \E i \in 1..Len(relic.effects \o relic.curses) : (relic.effects \o relic.curses)[i] = effect_id

\* C19 as stated: an identifier absent from the effect tables has display name
\* "Empty" and stacking type no_stack.
C19_UnknownIsEmpty ==
  (Queried /\ absent(queried.effect_id))
  => queried.name = NameOf("Empty") /\ queried.stacking_type = "no_stack"

\* the display name of an absent identifier: "Empty" for the empty sentinels, else
\* the placeholder "Effect <id>"
placeholder(effect_id) ==
  IF effect_id \in {-1, 0, EMPTY_EFFECT} THEN NameOf("Empty")
  ELSE [text |-> "Effect ", n |-> effect_id]

\* C19: an identifier absent from the effect tables has the placeholder name
\* "Effect <id>" ("Empty" only for the empty sentinels), stacking type no_stack and
\* no conflict identifier, and a relic that carries it is scored like any other.
C19_UnknownIsPlaceholder ==
  /\ (Queried /\ absent(queried.effect_id))
       => /\ queried.name = placeholder(queried.effect_id)
          /\ queried.stacking_type = "no_stack"
          /\ queried.conflict_id = -1
  /\ (Scored /\ carries(returned.relic, UNKNOWN_EFFECT))
       => returned.score \in Int

\* the unknown identifier was queried and a relic carrying it was scored
C19_Witness ==
  /\ Queried /\ queried.effect_id = UNKNOWN_EFFECT
  /\ queried.name.text = "Effect " /\ queried.name.n = UNKNOWN_EFFECT
  /\ Scored /\ carries(returned.relic, UNKNOWN_EFFECT)
  /\ returned.score = 100

(***************************************************************************)
(* Properties of a second run.                                              *)
(***************************************************************************)

\* Both runs are over: the first with the pinned handles that match no relic, the
\* second without them.
RanTwice == pc = "done" /\ first_run # <<>>

\* C20: a pinned handle that matches no relic of the inventory changes nothing:
\* optimize returns the results it returns for the build without that handle, and
\* excludes no vessel for it.
C20_AbsentPinChangesNothing == RanTwice => output = first_run.output

\* handles 9 and 4 pinned around a handle no relic has; both runs returned a result
\* that holds the two relics
C20_Witness ==
  /\ RanTwice
  /\ first_run.build.pinned_relics = <<9, 99, 4>>
  /\ build.pinned_relics = <<9, 4>>
  /\ output # <<>>
  /\ {4, 9} \subseteq handles_of(output[1].assignments)

(***************************************************************************)
(* Properties of decrypt_sl2.                                               *)
(***************************************************************************)

Decrypted == pc = "returned"

\* the entries whose header the loop reads
EntriesRead(file) == 0..(Smaller(file.num_entries, headers_inside(file.len)) - 1)

HeaderOf(file, i) == file.headers[i + 1]

\* the entry has a wrong signature, a size that is not positive or above 1 GB, a
\* data range outside the file, or cannot be decrypted
faulty(file, h) ==
  \/ ~h.magic
  \/ h.size <= 0 \/ h.size > MAX_ENTRY_SIZE
  \/ h.data_offset < 0 \/ h.data_offset + h.size > file.len
  \/ h.size < IV_SIZE \/ (h.size - IV_SIZE) % IV_SIZE # 0
  \/ h.io_error

\* every blob written carries the index of an entry that was read and is not
\* faulty, and the blobs are in the order of their entries
blobs_named_by_entry ==
  /\ \A k \in 1..Len(written) :
       /\ written[k].name[2] \in EntriesRead(sl2)
       /\ ~faulty(sl2, HeaderOf(sl2, written[k].name[2]))
       /\ written[k].length = HeaderOf(sl2, written[k].name[2]).size - IV_SIZE
  /\ \A k \in 1..Len(written) : \A m \in 1..Len(written) :
       k < m => written[k].name[2] < written[m].name[2]

\* at the return, every entry read that is not faulty and whose data starts past
\* offset 0 has its blob, whatever the entries before it were
later_entries_processed ==
  Decrypted =>
    \A i \in EntriesRead(sl2) :
       (~faulty(sl2, HeaderOf(sl2, i)) /\ HeaderOf(sl2, i).data_offset > 0)
       => \E k \in 1..Len(written) : written[k].name[2] = i

\* C21 as stated: decrypt_sl2 raises only when the first four bytes are not BND4;
\* faulty entries are skipped, later entries are still processed, and every blob is
\* named after its own entry index.
C21_FailsOnlyWithoutMagic ==
  /\ pc = "raised" => ~sl2.bnd4
  /\ blobs_named_by_entry
  /\ later_entries_processed

\* C21: decrypt_sl2 raises only when the first four bytes are not BND4 or the file
\* ends before the entry count at bytes 12..15; faulty entries are skipped, later
\* entries are still processed, and every blob is named after its own entry index.
C21_FailsOnlyOnHeader ==
  /\ pc = "raised" => (~sl2.bnd4 /\ outcome = "ValueError") \/ (sl2.len < 16 /\ outcome = "struct.error")
  /\ Decrypted => sl2.bnd4 /\ sl2.len >= 16
  /\ blobs_named_by_entry
  /\ later_entries_processed

\* a wrong signature, then a payload that is not a whole number of blocks, then a
\* sound entry: one blob, USERDATA_02
C21_Witness ==
  /\ Decrypted
  /\ Len(sl2.headers) = 3
  /\ ~sl2.headers[1].magic
  /\ sl2.headers[2] = EntryHeader(TRUE, 24, 160, FALSE)
  /\ written = <<[name |-> <<"USERDATA_", 2>>, length |-> 16]>>

\* a file of ten bytes that starts with BND4
C21_ShortFileRaises == pc = "raised" /\ sl2.bnd4 /\ sl2.len = 10 /\ outcome = "struct.error"

(***************************************************************************)
(* Properties of the search.                                                *)
(***************************************************************************)

\* The candidate loop of a slot is running: the empty slot or a candidate placed
\* at the slot has been explored and the call has returned.
InLoop == pc = "bt_loop" /\ stack # <<>>

\* the relics placed at the free slots before the slot, in slot order
placed_before(slot_idx) ==
  SelectSeq([j \in 1..(slot_idx - 1) |-> current[j].relic], LAMBDA r : r # NoRelic)

adds_of(rels) == union_adds([k \in 1..Len(rels) |-> get_relic_stacking_adds(rels[k])])

RECURSIVE curses_of(_)
curses_of(rels) ==
  IF rels = <<>> THEN <<>> ELSE get_relic_curse_ids(rels[1]) \o curses_of(Tail(rels))

\* the frame state is the one the relics produce
state_of(rels) ==
  /\ used = {rels[k].ga_handle : k \in 1..Len(rels)}
  /\ v_eff = adds_of(rels).effect_ids
  /\ v_excl = adds_of(rels).exclusivity_ids
  /\ v_no_stack_excl = adds_of(rels).no_stack_exclusivity_ids
  /\ v_no_stack_compat = adds_of(rels).no_stack_compat_ids
  /\ curse_counts = add_curses(<<>>, curses_of(rels))

\* C22: when the exploration of a candidate placed at a slot has returned, the used
\* handles, the four stacking sets and the curse counts are what they were before
\* the candidate was placed: the state produced by the relics of the earlier slots.
C22_PopRestoresState == InLoop => state_of(placed_before(TopFrame.slot_idx))

\* the relic with the magic imbue is placed at an earlier slot, and its exclusivity
\* identifier is gone from v_excl after a later candidate was taken back
C22_EarlierAdditionRemoved ==
  /\ InLoop /\ TopFrame.ci > 0
  /\ \E k \in 1..Len(placed_before(TopFrame.slot_idx)) :
        /\ IMBUE_MAGIC \in Range(placed_before(TopFrame.slot_idx)[k].effects)
        /\ get_relic_stacking_adds(placed_before(TopFrame.slot_idx)[k]).exclusivity_ids # {}
  /\ v_excl = {}
  /\ used = {placed_before(TopFrame.slot_idx)[k].ga_handle : k \in 1..Len(placed_before(TopFrame.slot_idx))}

\* Branch-and-bound has run to its end for the vessel and its results are built.
SearchedVessel ==
  /\ pc = "build" /\ ri > Len(raw) /\ free_slot_indices # <<>> /\ time_budget = -1
  /\ total_candidates(candidates_per_free_slot) <= BACKTRACK_MAX_CANDIDATES

Greatest(S) == CHOOSE x \in S : \A y \in S : y <= x

\* what a slot may hold: the relic pinned to it, or nothing or a relic of its
\* colour (any colour for White) and depth that is neither blacklisted nor pinned
slot_options(i) ==
  IF slot_owner[i] # NoHandle THEN {pinned_map[slot_owner[i]]}
  ELSE {NoRelic} \cup
       {inventory[k] : k \in {m \in 1..Len(inventory) :
           /\ inventory[m].is_deep = is_deep_slot(i)
           /\ (slot_colors[i] = "White" \/ inventory[m].color = slot_colors[i])
           /\ ~has_blacklisted_effect(inventory[m], build)
           /\ inventory[m].ga_handle \notin DOMAIN pinned_map}}

RECURSIVE assignments_from(_)
assignments_from(i) ==
  IF i > num_slots THEN {<<>>}
  ELSE {<<r>> \o rest : r \in slot_options(i), rest \in assignments_from(i + 1)}

\* the relics of the free slots are pairwise distinct
pairwise_distinct(a) ==
  \A i \in 1..Len(a) : \A j \in 1..Len(a) :
     (i < j /\ slot_owner[i] = NoHandle /\ slot_owner[j] = NoHandle
        /\ a[i] # NoRelic /\ a[j] # NoRelic) => a[i].ga_handle # a[j].ga_handle

AllAssignments == {a \in assignments_from(1) : pairwise_distinct(a)}

fixed_total(st) == fix_tier_family_direction(st.slot_results, build, st.total_score).total_score

\* the total_score of the VesselResult built from the relics of the slots
total_of(a) == fixed_total(score_slots(EmptyLoopState, a, build))

\* C23: without the deadline, the best total_score among the results of a vessel
\* solved by branch-and-bound is the greatest total_score of any assignment that
\* keeps the pinned relics in their slots and fills the free slots with distinct,
\* compatible, non-blacklisted relics or nothing.
C23_BestIsMaximum ==
  SearchedVessel =>
    Greatest({r.total_score : r \in ResultsOf(vi)}) = Greatest({total_of(a) : a \in AllAssignments})

\* the avoided variant placed after its family base: the assignment totals 2, and
\* every result of the vessel totals 0
C23_BetterAssignmentMissed ==
  /\ SearchedVessel
  /\ build.tiers = [NoTiers EXCEPT !["avoid"] = {HP_RESTORE_PLUS1}]
  /\ <<Catalogue[1], NoRelic, Catalogue[4]>> \in AllAssignments
  /\ total_of(<<Catalogue[1], NoRelic, Catalogue[4]>>) = 2
  /\ \A r \in ResultsOf(vi) : r.total_score = 0

\* the candidates of the slot whose relic is not in use: <<pre_score, relic>>
free_candidates(slot_idx) ==
  {candidates_per_free_slot[slot_idx][c] : c \in {k \in 1..Len(candidates_per_free_slot[slot_idx]) :
      candidates_per_free_slot[slot_idx][k][2].ga_handle \notin used}}

\* the ways to fill the slots from slot_idx on with candidates not in hs, or nothing
RECURSIVE completions(_, _)
completions(slot_idx, hs) ==
  IF slot_idx > num_free THEN {<<>>}
  ELSE {<<NoRelic>> \o rest : rest \in completions(slot_idx + 1, hs)}
       \cup UNION {{<<cand[2]>> \o rest : rest \in completions(slot_idx + 1, hs \cup {cand[2].ga_handle})} :
                     cand \in {x \in free_candidates(slot_idx) : x[2].ga_handle \notin hs}}

\* the slot loop state that holds the present frame state
frame_loop_state ==
  [EmptyLoopState EXCEPT !.vessel_eff = v_eff, !.vessel_excl = v_excl,
                         !.vessel_no_stack_excl = v_no_stack_excl,
                         !.vessel_no_stack_compat = v_no_stack_compat,
                         !.vessel_curse_counts = curse_counts]

\* the search score of the relics placed one after the other from the frame state
search_score_of(rels) == score_slots(frame_loop_state, rels, build).total_score

\* the candidate is skipped by the upper-bound test of the loop
bound_skipped(f, cand) ==
  f.score + cand[1] + remaining_max(f.slot_idx) <= min_threshold

no_better_completion(f, cand) ==
  \A rest \in completions(f.slot_idx + 1, {cand[2].ga_handle}) :
     f.score + search_score_of(<<cand[2]>> \o rest) <= min_threshold

\* C24: the contextual score of a candidate under the vessel state of the search
\* never exceeds its pre-score, and a candidate skipped by the upper-bound test has
\* no completion whose search score exceeds the minimum of the top list.
C24_PruneIsSound ==
  InLoop =>
    \A cand \in free_candidates(TopFrame.slot_idx) :
       /\ candidate_ctx_score(cand) <= cand[1]
       /\ bound_skipped(TopFrame, cand) => no_better_completion(TopFrame, cand)

\* the family base is placed and the avoided variant, pre-score -18, scores 2
C24_ContextAbovePreScore ==
  /\ InLoop
  /\ used = {1}
  /\ \E cand \in free_candidates(TopFrame.slot_idx) :
        cand[2] = Catalogue[4] /\ cand[1] = -18 /\ candidate_ctx_score(cand) = 2

\* the family base is skipped at the first slot for a bound of 0 although placing
\* the avoided variant after it reaches 2
C24_SkippedHadBetterCompletion ==
  /\ InLoop /\ used = {} /\ min_threshold = 0
  /\ \E cand \in free_candidates(TopFrame.slot_idx) :
        /\ cand[2] = Catalogue[1]
        /\ bound_skipped(TopFrame, cand)
        /\ TopFrame.score + search_score_of(<<Catalogue[1], NoRelic, Catalogue[4]>>) = 2
        /\ <<NoRelic, Catalogue[4]>> \in completions(TopFrame.slot_idx + 1, {1})

(***************************************************************************)
(* Properties of the tier-family direction correction.                     *)
(***************************************************************************)

\* the members of the result's family group compat, in slot order
group_members(r, compat) ==
  SelectSeq(family_members(r.assignments, 1), LAMBDA m : m.compat = compat)

group_compats(r) ==
  {family_members(r.assignments, 1)[k].compat : k \in 1..Len(family_members(r.assignments, 1))}

\* the groups of the result that hold a scored base and a scored variant
mixed_groups(r) ==
  {c \in group_compats(r) :
     has_stype(group_members(r, c), "no_stack") /\ has_stype(group_members(r, c), "unique")}

result_entry(r, m) == r.assignments[m.slot_i].breakdown[m.bk_j]

first_occurrence(members, k) ==
  \A j \in 1..(k - 1) : ~(members[j].stype = "unique" /\ members[j].eff_id = members[k].eff_id)

member_corrected(r, members, k) ==
  IF members[k].stype = "no_stack"
  THEN result_entry(r, members[k]).score = 0 /\ result_entry(r, members[k]).redundant
  ELSE IF first_occurrence(members, k)
  THEN /\ result_entry(r, members[k]).score = resolve_tier_and_weight(members[k].eff_id, build)[2]
       /\ ~result_entry(r, members[k]).redundant
  ELSE result_entry(r, members[k]).score = 0 /\ result_entry(r, members[k]).redundant

group_corrected(r, members) == \A k \in 1..Len(members) : member_corrected(r, members, k)

\* C25: in every result, in every real tier-family group with a scored base and a
\* scored variant, every base has score 0 and is redundant, the first occurrence of
\* each variant has its tier weight and is not redundant, later occurrences of the
\* variant are redundant with score 0.
C25_GroupsCorrected ==
  \A r \in Results : \A c \in mixed_groups(r) : group_corrected(r, group_members(r, c))

(***************************************************************************)
(* Properties of the solvers' result lists.                                *)
(***************************************************************************)

\* optimize has returned for vessel v
Optimized(v) == vi > v \/ (vi = v /\ pc = "build" /\ ri > Len(raw))

all_empty(r) == \A i \in 1..Len(r.assignments) : r.assignments[i].relic = NoRelic

no_candidate(v) ==
  \A i \in 1..num_slots : slot_candidates(build, inventory, vessels[v][i], is_deep_slot(i), {}) = <<>>

\* the results of a vessel, as a sequence
results_seq(v) == SelectSeq(all_results, LAMBDA r : r.vessel_id = v)

\* C26: a vessel that the pins do not exclude has at least one and at most the
\* requested number of results, a single all-empty one when no slot has a
\* candidate, and no two of its results hold the same set of relic handles.
C26_ResultCountAndDistinct ==
  \A v \in 1..Len(vessels) :
    (Optimized(v) /\ pre_assign_pinned(build, inventory, vessels[v], num_slots).ok) =>
       /\ Len(results_seq(v)) >= 1
       /\ Len(results_seq(v)) <= max_per_vessel
       /\ (no_candidate(v) /\ build.pinned_relics = <<>>) =>
             (Len(results_seq(v)) = 1 /\ all_empty(results_seq(v)[1]))
       /\ \A j, k \in 1..Len(results_seq(v)) :
             j # k => AssignedHandles(results_seq(v)[j]) # AssignedHandles(results_seq(v)[k])

\* the greedy solver was selected and returned more than one assignment
GreedySelected ==
  /\ free_slot_indices # <<>>
  /\ total_candidates(candidates_per_free_slot) > BACKTRACK_MAX_CANDIDATES

C26_Witness ==
  /\ pc = "done" /\ GreedySelected
  /\ Len(results_seq(1)) = max_per_vessel /\ max_per_vessel > 1

\* branch-and-bound filled its list, and a vessel without candidates got one
\* all-empty result
C26_BacktrackWitness ==
  /\ pc = "done" /\ ~GreedySelected
  /\ \E v \in 1..Len(vessels) : Len(results_seq(v)) = max_per_vessel /\ max_per_vessel > 1

\* a vessel none of whose slots has a candidate got its single all-empty result
C26_EmptyWitness ==
  /\ pc = "done" /\ build.pinned_relics = <<>> /\ inventory # <<>>
  /\ \E v \in 1..Len(vessels) : no_candidate(v) /\ all_empty(results_seq(v)[1])

(***************************************************************************)
(* Properties of the excess-curse penalty.                                 *)
(***************************************************************************)

\* the slot loop has scored the assignment raw[ri]
SlotsScored == pc = "fix"

\* the stacking sets the slot loop holds when it reaches slot i
sets_before(i) == loop_sets(score_slots(EmptyLoopState, SubSeq(raw[ri], 1, i - 1), build))

\* the score of the slot without an excess-curse penalty
unpenalised(i) ==
  IF raw[ri][i] = NoRelic THEN 0
  ELSE ctx_score_list(raw[ri][i].effects \o raw[ri][i].curses, build, sets_before(i))
         + TIER_BONUS(effect_count(raw[ri][i]))

penalty_applied(i) == loop.slot_results[i].score - unpenalised(i)

\* the curse occurrences of the vessel that at least cap occurrences of the same
\* curse precede
excess_occurrences(cs, cap) ==
  {k \in 1..Len(cs) : Cardinality({j \in 1..(k - 1) : cs[j] = cs[k]}) >= cap}

\* C27: the excess-curse penalties of the slots sum to 200 times the number of curse
\* occurrences that at least curse_max occurrences of the same curse precede.
C27_PenaltyPerExcessCurse ==
  SlotsScored =>
    SumSeq([i \in 1..Len(raw[ri]) |-> penalty_applied(i)])
      = CURSE_EXCESS_PENALTY * Cardinality(excess_occurrences(curses_of(raw[ri]), build.curse_max))

(***************************************************************************)
(* Properties of the pre-assignment of pinned relics.                      *)
(***************************************************************************)

\* the slots of the result that hold the relic with the handle
slots_holding(r, h) ==
  {i \in 1..Len(r.assignments) :
     r.assignments[i].relic # NoRelic /\ r.assignments[i].relic.ga_handle = h}

\* C28: in every VesselResult no relic handle occupies more than one slot.
C28_HandleInOneSlot ==
  \A r \in Results : \A h \in AssignedHandles(r) : Cardinality(slots_holding(r, h)) = 1

\* the relic pinned twice holds two slots of a result
C28_PinnedTwiceHoldsTwoSlots ==
  /\ build.pinned_relics = <<1, 1>>
  /\ \E r \in Results : slots_holding(r, 1) = {1, 3}

\* the relic fits the slot: same deep flag, and the slot's colour or a White slot
fits_slot(relic, v, i) ==
  relic.is_deep = is_deep_slot(i) /\ (vessels[v][i] = "White" \/ relic.color = vessels[v][i])

\* the ways to give the pinned relics of the inventory pairwise distinct fitting slots
placements(v) ==
  {f \in [DOMAIN pinned_map_of(build, inventory) -> 1..num_slots] :
     /\ \A h \in DOMAIN f : fits_slot(pinned_map_of(build, inventory)[h], v, f[h])
     /\ \A g, h \in DOMAIN f : g # h => f[g] # f[h]}

\* C29: a vessel for which the pinned relics of the inventory can be given pairwise
\* distinct fitting slots is not excluded: optimize returns results for it.
C29_ExcludedOnlyWithoutPlacement ==
  \A v \in 1..Len(vessels) : (vi > v /\ placements(v) # {}) => ResultsOf(v) # {}

\* relic 1 took the White slot, relic 2 found none, and the vessel has no result
\* although relic 1 fits the Red slot and relic 2 the White one
C29_ExcludedDespitePlacement ==
  /\ build.pinned_relics = <<1, 2>> /\ vessels[1] = <<"White", "Red", "Green">>
  /\ vi > 1 /\ ResultsOf(1) = {}
  /\ [h \in {1, 2} |-> IF h = 1 THEN 2 ELSE 1] \in placements(1)

(***************************************************************************)
(* Properties of the parser on a blob that ends inside a record.           *)
(***************************************************************************)

Parsed == pc = "parsed"

\* the item is a relic record whose fields were all read from the blob: the last
\* branch of Item.from_bytes, size 8 + 8 + 12 + 28 + 12 + 12
completely_decoded(item) == is_relic_item(item) /\ item.size = BASE_SIZE + 72

complete_relics(its) ==
  [k \in 1..Len(SelectSeq(its, completely_decoded)) |->
     RawRelic(SelectSeq(its, completely_decoded)[k])]

\* C30: parse_relics returns exactly the completely decoded relic records of the
\* blob, in encounter order, also when the blob ends inside a record.
C30_OnlyCompleteRelics == Parsed => relics = complete_relics(items)

\* the blob ends after the effects of its last relic record, and the record is
\* returned with its curses read as 0
C30_TruncatedRelicReturned ==
  /\ Parsed /\ relics # <<>>
  /\ relics[Len(relics)].size = 28
  /\ relics[Len(relics)].offset + 28 = data_len(data)
  /\ relics[Len(relics)].sec_effect1 = 0


====
